---------------------------- MODULE Spec2Model ----------------------------
(***************************************************************************)
(* Weekly check-in tracker (server.js): the in-memory current-week         *)
(* counters, the week-ending (Friday) clock, the History and Students      *)
(* sheets behind the Google Sheets calls, the read-time reconciliation of  *)
(* the history and the route handlers /, /add, /clearweek, /addstudent     *)
(* and /endweek.                                                           *)
(*                                                                         *)
(* Strings are TLA+ strings; a cell of a sheet is a string, a row is a     *)
(* sequence of cells, a sheet is a sequence of rows (row 1 is the header   *)
(* row when there is one).                                                 *)
(***************************************************************************)
EXTENDS Integers, Sequences, FiniteSets, TLC

VARIABLES
    currentWeek,      \* server.js:35  key -> number
    currentTeachers,  \* server.js:36  key -> array of teacher names
    historySheet,     \* rows of the HISTORY_TAB sheet
    studentsSheet,    \* rows of the STUDENTS_TAB sheet
    now,              \* the local wall clock of the process: [day, hour]
    tz,               \* the UTC offset of the process, in hours
    proc,             \* the request each handler slot is running
    last,             \* the handler step taken last, with what it answered
    clockOut          \* what the last call of the week clock returned

vars == <<currentWeek, currentTeachers, historySheet, studentsSheet,
          now, tz, proc, last, clockOut>>

-----------------------------------------------------------------------------
(* Bounds of the model *)

FirstDay == 11       \* first day of March 2024 the clock is read on
LastDay == 24        \* last day of March 2024 the clock is read on
MaxHistRows == 3     \* data rows put into the History sheet from outside
MaxRosterRows == 2   \* data rows put into the Students sheet from outside

-----------------------------------------------------------------------------
(* Strings *)

Char(s, i) == SubSeq(s, i, i)

\* the characters of the model in UTF-16 code unit order
CodeOrder == " -0123456789;ABSTX_abcdeghiknorstuwx|"

Code(c) == CHOOSE i \in 1..Len(CodeOrder) : Char(CodeOrder, i) = c

IsSpace(c) == c = " "

RECURSIVE TrimStart(_)
TrimStart(s) ==
    IF Len(s) > 0 /\ IsSpace(Char(s, 1))
    THEN TrimStart(SubSeq(s, 2, Len(s)))
    ELSE s

RECURSIVE TrimEnd(_)
TrimEnd(s) ==
    IF Len(s) > 0 /\ IsSpace(Char(s, Len(s)))
    THEN TrimEnd(SubSeq(s, 1, Len(s) - 1))
    ELSE s

\* String.prototype.trim
Trim(s) == TrimEnd(TrimStart(s))

LowerChar(c) ==
    CASE c = "A" -> "a"
      [] c = "B" -> "b"
      [] c = "S" -> "s"
      [] c = "T" -> "t"
      [] c = "X" -> "x"
      [] OTHER -> c

\* String.prototype.toLowerCase
RECURSIVE ToLowerCase(_)
ToLowerCase(s) ==
    IF Len(s) = 0 THEN ""
    ELSE LowerChar(Char(s, 1)) \o ToLowerCase(SubSeq(s, 2, Len(s)))

\* a < b on strings: comparison by code units
RECURSIVE StrLess(_, _)
StrLess(a, b) ==
    IF Len(b) = 0 THEN FALSE
    ELSE IF Len(a) = 0 THEN TRUE
    ELSE IF Char(a, 1) = Char(b, 1)
         THEN StrLess(SubSeq(a, 2, Len(a)), SubSeq(b, 2, Len(b)))
         ELSE Code(Char(a, 1)) < Code(Char(b, 1))

DigitChars == "0123456789"

IsDigit(c) == \E i \in 1..10 : Char(DigitChars, i) = c

DigitVal(c) == (CHOOSE i \in 1..10 : Char(DigitChars, i) = c) - 1

DigitStr(n) == Char(DigitChars, n + 1)

\* String(n) of a non-negative integer
RECURSIVE NumToStr(_)
NumToStr(n) ==
    IF n < 10 THEN DigitStr(n)
    ELSE NumToStr(n \div 10) \o DigitStr(n % 10)

RECURSIVE DigitsValue(_)
DigitsValue(s) ==
    IF Len(s) = 0 THEN 0
    ELSE DigitsValue(SubSeq(s, 1, Len(s) - 1)) * 10 + DigitVal(Char(s, Len(s)))

\* Number(s) of a trimmed string: "" is 0, a digit string is its value, any
\* other text of the model is NaN
Number(s) ==
    IF Len(s) = 0 THEN [nan |-> FALSE, val |-> 0]
    ELSE IF \A i \in 1..Len(s) : IsDigit(Char(s, i))
         THEN [nan |-> FALSE, val |-> DigitsValue(s)]
         ELSE [nan |-> TRUE, val |-> 0]

normalizeStudentName(s) == Trim(s)

normalizeOwner(s) == ToLowerCase(Trim(s))

ownerStudentKey(owner, student) == owner \o "||" \o student

-----------------------------------------------------------------------------
(* The week clock.  A Date is the local wall time [day, hour]: day is the   *)
(* day of March 2024 (2024-03-10 is a Sunday), hour the hour of the day.    *)

\* Date.prototype.getDay, Sun=0 ... Sat=6
getDay(d) == (d.day + 4) % 7

\* today.setDate(today.getDate() + n): the local time of day is kept
setDateBy(d, n) == [d EXCEPT !.day = d.day + n]

TwoDigits(n) == DigitStr(n \div 10) \o DigitStr(n % 10)

\* today.toISOString().split("T")[0]: the date of the instant in UTC
toISODate(d, offset) ==
    "2024-03-" \o TwoDigits((d.day * 24 + d.hour - offset) \div 24)

getWeekEndingFridayISO(today, offset) ==
    LET day == getDay(today)
        t1 == IF day = 6 THEN setDateBy(today, -1) ELSE today
        t2 == IF day = 0 THEN setDateBy(t1, -2) ELSE t1
        diff == 5 - getDay(t2)
        t3 == setDateBy(t2, diff)
    IN  toISODate(t3, offset)

TZOffsets == {-8, 0, 9}

Instants == [day : FirstDay..LastDay, hour : 0..23]

-----------------------------------------------------------------------------
(* The Google Sheets calls, on a sheet held as a sequence of rows *)

\* r[i] || "" (i counted from 1)
Cell(r, i) == IF i <= Len(r) THEN r[i] ELSE ""

\* getSheetValues("<tab>!A1:E1"): the first row, when the sheet has one
getFirstRow(sheet) == IF Len(sheet) = 0 THEN <<>> ELSE <<sheet[1]>>

\* getSheetValues("<tab>!A:E"): all rows
getAllRows(sheet) == sheet

\* updateSheetValues("<tab>!A1:E1", [row]): row 1 is overwritten
updateFirstRow(sheet, row) ==
    IF Len(sheet) = 0 THEN <<row>> ELSE [sheet EXCEPT ![1] = row]

\* appendRow("<tab>!A:E", row): one row is inserted after the last one
\* an append that leaves out a row the sheet already holds
appendRowOnce(sheet, row) ==
    IF \E i \in 1..Len(sheet) : sheet[i] = row THEN sheet ELSE Append(sheet, row)

appendRow(sheet, row) == Append(sheet, row)

wantedHistory == <<"owner", "student", "week_ending", "checkins", "teacher">>

wantedStudents == <<"owner", "student">>

\* ensureHistoryHeaders: const ok = wanted.every(...), on the values of A1:E1
historyHeadersOk(values) ==
    LET row == IF Len(values) = 0 THEN <<>> ELSE values[1]
    IN  \A i \in 1..Len(wantedHistory) :
            ToLowerCase(Trim(Cell(row, i))) = wantedHistory[i]

\* ensureStudentsHeaders: a === "owner" && b === "student", on the values of A1:B1
studentsHeadersOk(values) ==
    LET row == IF Len(values) = 0 THEN <<>> ELSE values[1]
    IN  /\ ToLowerCase(Trim(Cell(row, 1))) = "owner"
        /\ ToLowerCase(Trim(Cell(row, 2))) = "student"

\* a test that lets a count that is no number through
skipsRowUnlessCounted(owner, student, weekEnding, checkins) ==
    owner = "" \/ student = "" \/ weekEnding = ""

\* if (!owner || !student || !weekEnding || Number.isNaN(checkins)) continue;
skipsRow(owner, student, weekEnding, checkins) ==
    owner = "" \/ student = "" \/ weekEnding = "" \/ checkins.nan

\* readHistoryRows, the loop over the values of A:E
RECURSIVE historyRowsFrom(_, _)
historyRowsFrom(values, i) ==
    IF i > Len(values) THEN <<>>
    ELSE LET r == values[i]
             owner == normalizeOwner(Cell(r, 1))
             student == Trim(Cell(r, 2))
             weekEnding == Trim(Cell(r, 3))
             checkins == Number(Trim(Cell(r, 4)))
             teacher == Trim(Cell(r, 5))
             rest == historyRowsFrom(values, i + 1)
         IN  IF skipsRow(owner, student, weekEnding, checkins)
             THEN rest
             ELSE <<[owner |-> owner, student |-> student,
                     weekEnding |-> weekEnding, checkins |-> checkins.val,
                     teacher |-> teacher]>> \o rest

parseHistoryRows(values) ==
    IF Len(values) <= 1 THEN <<>> ELSE historyRowsFrom(values, 2)

\* readStudentsList, the loop over the values of A:B
RECURSIVE studentRowsFrom(_, _)
studentRowsFrom(values, i) ==
    IF i > Len(values) THEN <<>>
    ELSE LET r == values[i]
             owner == normalizeOwner(Cell(r, 1))
             student == Trim(Cell(r, 2))
             rest == studentRowsFrom(values, i + 1)
         IN  IF owner # "" /\ student # ""
             THEN <<[owner |-> owner, student |-> student]>> \o rest
             ELSE rest

parseStudentsList(values) ==
    IF Len(values) <= 1 THEN <<>> ELSE studentRowsFrom(values, 2)

-----------------------------------------------------------------------------
(* The page read, app.get("/"): roster set, selection, reconciliation *)

InSeq(x, seq) == \E i \in 1..Len(seq) : seq[i] = x

\* Set.prototype.add on a Set held in insertion order
setAdd(set, x) == IF InSeq(x, set) THEN set ELSE Append(set, x)

RECURSIVE setAddAll(_, _)
setAddAll(set, xs) ==
    IF Len(xs) = 0 THEN set ELSE setAddAll(setAdd(set, Head(xs)), Tail(xs))

\* studentsRows.filter((r) => r.owner === owner).map((r) => r.student)
RECURSIVE ownerStudentsOf(_, _)
ownerStudentsOf(studentsRows, owner) ==
    IF Len(studentsRows) = 0 THEN <<>>
    ELSE (IF Head(studentsRows).owner = owner
          THEN <<Head(studentsRows).student>> ELSE <<>>)
         \o ownerStudentsOf(Tail(studentsRows), owner)

\* a roster set built from the Students sheet alone
rosterSetOfSheetOnly(studentsRows, historyAll, owner) ==
    LET set0 == setAddAll(<<>>, ownerStudentsOf(studentsRows, owner))
    IN  IF Len(set0) = 0 THEN <<"Student 1">> ELSE set0

\* a roster set built from the rows of every tenant
rosterSetOfEveryTenant(studentsRows, historyAll, owner) ==
    LET set0 == setAddAll(<<>>, [i \in 1..Len(studentsRows) |-> studentsRows[i].student])
        set1 == setAddAll(set0, [i \in 1..Len(historyAll) |-> historyAll[i].student])
    IN  IF Len(set1) = 0 THEN <<"Student 1">> ELSE set1

\* the roster set: new Set(ownerStudents), the history's students, the placeholder
rosterSet(studentsRows, historyAll, owner) ==
    LET set0 == setAddAll(<<>>, ownerStudentsOf(studentsRows, owner))
        set1 == setAddAll(set0, ownerStudentsOf(historyAll, owner))
    IN  IF Len(set1) = 0 THEN <<"Student 1">> ELSE set1

\* the characters of the model in collation order (space, punctuation, digits,
\* letters); sensitivity "base" compares letters without their case
CollationOrder == " _-;|0123456789abcdeghiknorstuwx"

Collate(c) ==
    CHOOSE i \in 1..Len(CollationOrder) : Char(CollationOrder, i) = LowerChar(c)

\* a.localeCompare(b, undefined, { sensitivity: "base" }) < 0
RECURSIVE localeLess(_, _)
localeLess(a, b) ==
    IF Len(b) = 0 THEN FALSE
    ELSE IF Len(a) = 0 THEN TRUE
    ELSE IF Collate(Char(a, 1)) = Collate(Char(b, 1))
         THEN localeLess(SubSeq(a, 2, Len(a)), SubSeq(b, 2, Len(b)))
         ELSE Collate(Char(a, 1)) < Collate(Char(b, 1))

\* Array.prototype.sort is stable: x goes after the elements not greater than it
RECURSIVE insertByLocale(_, _)
insertByLocale(sorted, x) ==
    IF Len(sorted) = 0 THEN <<x>>
    ELSE IF localeLess(x, Head(sorted))
         THEN <<x>> \o sorted
         ELSE <<Head(sorted)>> \o insertByLocale(Tail(sorted), x)

RECURSIVE sortStudents(_)
sortStudents(set) ==
    IF Len(set) = 0 THEN <<>>
    ELSE insertByLocale(sortStudents(SubSeq(set, 1, Len(set) - 1)), set[Len(set)])

\* map.get(weekEnding) on a Map held in insertion order; <<>> is undefined
mapGet(map, k) ==
    IF \E i \in 1..Len(map) : map[i].weekEnding = k
    THEN <<map[CHOOSE i \in 1..Len(map) : map[i].weekEnding = k]>>
    ELSE <<>>

\* map.set(weekEnding, v): a present key keeps its place
mapSet(map, k, v) ==
    IF \E i \in 1..Len(map) : map[i].weekEnding = k
    THEN [i \in 1..Len(map) |-> IF map[i].weekEnding = k THEN v ELSE map[i]]
    ELSE Append(map, v)

\* a reconciliation in which the record read last always replaces the entry
replacesAlways(prev, r) == TRUE

\* a reconciliation in which a record with an equal count replaces the entry
replacesOnTie(prev, r) == Len(prev) = 0 \/ r.checkins >= prev[1].checkins

\* if (!prev || r.checkins > prev.checkins)
replaces(prev, r) == Len(prev) = 0 \/ r.checkins > prev[1].checkins

\* the reconciliation loop: for (const r of historyAll) { ... }
RECURSIVE reconcile(_, _, _, _)
reconcile(map, historyAll, owner, selected) ==
    IF Len(historyAll) = 0 THEN map
    ELSE LET r == Head(historyAll)
             prev == mapGet(map, r.weekEnding)
             next == IF r.owner # owner \/ r.student # selected THEN map
                     ELSE IF replaces(prev, r)
                          THEN mapSet(map, r.weekEnding,
                                      [weekEnding |-> r.weekEnding,
                                       checkins |-> r.checkins,
                                       teacher |-> r.teacher])
                          ELSE map
         IN  reconcile(next, Tail(historyAll), owner, selected)

\* .sort((a, b) => a.weekEnding < b.weekEnding ? 1 : a.weekEnding > b.weekEnding ? -1 : 0)
RECURSIVE insertByWeekDesc(_, _)
insertByWeekDesc(sorted, x) ==
    IF Len(sorted) = 0 THEN <<x>>
    ELSE IF StrLess(Head(sorted).weekEnding, x.weekEnding)
         THEN <<x>> \o sorted
         ELSE <<Head(sorted)>> \o insertByWeekDesc(Tail(sorted), x)

RECURSIVE sortWeeksDesc(_)
sortWeeksDesc(entries) ==
    IF Len(entries) = 0 THEN <<>>
    ELSE insertByWeekDesc(sortWeeksDesc(SubSeq(entries, 1, Len(entries) - 1)),
                          entries[Len(entries)])

\* a weeklySummary left in the order of the Map
weeklySummaryUnsorted(historyAll, owner, selected) ==
    reconcile(<<>>, historyAll, owner, selected)

\* Array.from(map.entries()).map(...).sort(...)
weeklySummaryOf(historyAll, owner, selected) ==
    sortWeeksDesc(reconcile(<<>>, historyAll, owner, selected))

\* currentWeek[key] || 0
countOf(week, key) == IF key \in DOMAIN week THEN week[key] ELSE 0

\* currentTeachers[key] || []
teachersOf(teachers, key) == IF key \in DOMAIN teachers THEN teachers[key] ELSE <<>>

\* obj[key] = v
put(obj, key, v) == [k \in DOMAIN obj \cup {key} |-> IF k = key THEN v ELSE obj[k]]

\* everything app.get("/") computes from what it has read
pageOf(historyAll, studentsRows, errorBanner, owner, queryStudent, week) ==
    LET students == sortStudents(rosterSet(studentsRows, historyAll, owner))
        selected == IF normalizeStudentName(queryStudent) # ""
                    THEN normalizeStudentName(queryStudent) ELSE students[1]
        key == ownerStudentKey(owner, selected)
    IN  [owner |-> owner, students |-> students, selected |-> selected,
         current |-> countOf(week, key),
         weeklySummary |-> weeklySummaryOf(historyAll, owner, selected),
         errorBanner |-> errorBanner]

-----------------------------------------------------------------------------
(* States shared by the specifications *)

NoKeys == [k \in {} |-> 0]

Procs == {1, 2}

Idle == [phase |-> "idle"]

NoStep == [op |-> "none"]

InitServer ==
    /\ currentWeek = NoKeys
    /\ currentTeachers = NoKeys
    /\ proc = [p \in Procs |-> Idle]
    /\ last = NoStep
    /\ clockOut = ""

-----------------------------------------------------------------------------
(* SpecClock: the week clock read once, at any instant, under any offset *)

InitClock ==
    /\ InitServer
    /\ historySheet = <<wantedHistory>>
    /\ studentsSheet = <<wantedStudents>>
    /\ now \in Instants
    /\ tz \in TZOffsets

ReadClock ==
    /\ clockOut = ""
    /\ clockOut' = getWeekEndingFridayISO(now, tz)
    /\ last' = [op |-> "clock"]
    /\ UNCHANGED <<currentWeek, currentTeachers, historySheet, studentsSheet,
                   now, tz, proc>>

NextClock == ReadClock

SpecClock == InitClock /\ [][NextClock]_vars

-----------------------------------------------------------------------------
(* SpecLedger, SpecRoster: the sheets hold raw rows written from outside    *)
(* (by hand, by an earlier deployment); then one page is read, with no      *)
(* store failure and nothing else running.                                  *)

\* raw History rows: well-formed ones of two tenants and two subjects, and
\* one row for each way of being malformed
HistoryRowPool ==
    { <<"a", "s", "2024-03-15", "3", "t">>,
      <<" A ", " s", "2024-03-15 ", " 5", "">>,
      <<"a", "s", "2024-03-08", "4", "u">>,
      <<"a", "S", "2024-03-15", "2", "">>,
      <<"b", "s", "2024-03-15", "5", "x">>,
      <<"a", "s", "2024-03-15", "x", "">>,
      <<"", "s", "2024-03-15", "5", "">>,
      <<"a", " ", "2024-03-15", "5", "">>,
      <<"a", "s", " ", "5", "">>,
      <<"a", "s", "2024-03-22", "", "">> }

RosterHistoryPool ==
    { <<"a", "s", "2024-03-15", "3", "">>,
      <<"b", "r", "2024-03-15", "x", "">>,
      <<"B", " r", "2024-03-08", "1", "">> }

RosterRowPool ==
    { <<"a", "s">>, <<" A", "S ">>, <<"b", "t">>, <<"", "u">>, <<"a", " ">> }

PageOwners == {"a", "b"}

PageQueries == {"", " s"}

InitRead ==
    /\ InitServer
    /\ historySheet = <<wantedHistory>>
    /\ studentsSheet = <<wantedStudents>>
    /\ now = [day |-> FirstDay, hour |-> 0]
    /\ tz = 0

PutHistoryRow(row) ==
    /\ last.op # "page"
    /\ Len(historySheet) <= MaxHistRows
    /\ historySheet' = appendRow(historySheet, row)
    /\ last' = [op |-> "put"]
    /\ UNCHANGED <<currentWeek, currentTeachers, studentsSheet, now, tz, proc,
                   clockOut>>

PutStudentsRow(row) ==
    /\ last.op # "page"
    /\ Len(studentsSheet) <= MaxRosterRows
    /\ studentsSheet' = appendRow(studentsSheet, row)
    /\ last' = [op |-> "put"]
    /\ UNCHANGED <<currentWeek, currentTeachers, historySheet, now, tz, proc,
                   clockOut>>

\* app.get("/") run from its first line to its last with every store call
\* succeeding
ReadPage(owner, queryStudent) ==
    LET hist == IF historyHeadersOk(getFirstRow(historySheet)) THEN historySheet
                ELSE updateFirstRow(historySheet, wantedHistory)
        studs == IF studentsHeadersOk(getFirstRow(studentsSheet)) THEN studentsSheet
                 ELSE updateFirstRow(studentsSheet, wantedStudents)
        page == pageOf(parseHistoryRows(getAllRows(hist)),
                       parseStudentsList(getAllRows(studs)),
                       "", owner, queryStudent, currentWeek)
        key == ownerStudentKey(owner, page.selected)
    IN  /\ last.op # "page"
        /\ normalizeOwner(owner) # ""
        /\ historySheet' = hist
        /\ studentsSheet' = studs
        /\ currentWeek' = put(currentWeek, key, countOf(currentWeek, key))
        /\ currentTeachers' = put(currentTeachers, key, teachersOf(currentTeachers, key))
        /\ last' = [op |-> "page", page |-> page,
                    historyFailed |-> FALSE, studentsFailed |-> FALSE]
        /\ UNCHANGED <<now, tz, proc, clockOut>>

NextLedger ==
    \/ \E row \in HistoryRowPool : PutHistoryRow(row)
    \/ \E owner \in PageOwners, q \in PageQueries : ReadPage(owner, q)

SpecLedger == InitRead /\ [][NextLedger]_vars

\* SpecTies: the page read over History sheets whose records of one week
\* share their count and differ in their teacher
TieRowPool ==
    { <<"a", "s", "2024-03-15", "3", "t">>,
      <<"a", "s", "2024-03-15", "3", "u">>,
      <<"a", "s", "2024-03-15", "5", "x">>,
      <<" A", "s ", "2024-03-15", "5 ", "">>,
      <<"a", "s", "2024-03-08", "3", "u">>,
      <<"b", "s", "2024-03-15", "5", "t">> }

NextTies ==
    \/ \E row \in TieRowPool : PutHistoryRow(row)
    \/ \E owner \in PageOwners, q \in PageQueries : ReadPage(owner, q)

SpecTies == InitRead /\ [][NextTies]_vars

NextRoster ==
    \/ \E row \in RosterHistoryPool : PutHistoryRow(row)
    \/ \E row \in RosterRowPool : PutStudentsRow(row)
    \/ \E owner \in PageOwners, q \in PageQueries : ReadPage(owner, q)

SpecRoster == InitRead /\ [][NextRoster]_vars

-----------------------------------------------------------------------------
(* The route handlers.  /add and /clearweek run from their first line to    *)
(* their last in one step.  /endweek, /addstudent and / are async: each     *)
(* await of a Sheets call is a point where other requests run.  A step of   *)
(* an async handler is one call of the store (the sheet is read or written, *)
(* or the call fails) together with the code that runs when the handler     *)
(* resumes, up to its next await or to its end.                             *)

CAP == 5

MaxLedger == 1       \* data rows /endweek may put into the History sheet
MaxTeachers == 1     \* teacher names /add may collect for one key
MaxBystander == 1    \* check-ins of the users whose requests are not followed

\* the users whose requests the specification follows, and the others
Users == {"a"}

Bystanders == {"b"}

\* req.body.student of the requests that name a student, and of those
\* that name none
NamedStudents == {" s"}

BlankStudents == {"", " "}

BodyTeachers == {"", " t"}

\* the handler slot the requests of Spec run in, one after the other
Sequential == {1}

\* the awaits, named by the function that awaits and the call awaited
HeaderGets == {"ensureStudentInSheet/ensureStudentsHeaders/get",
               "readStudentsList/ensureStudentsHeaders/get",
               "saveWeekToHistory/ensureHistoryHeaders/get",
               "readHistoryRows/ensureHistoryHeaders/get"}

HeaderUpdates == {"ensureStudentInSheet/ensureStudentsHeaders/update",
                  "readStudentsList/ensureStudentsHeaders/update",
                  "saveWeekToHistory/ensureHistoryHeaders/update",
                  "readHistoryRows/ensureHistoryHeaders/update"}

RowGets == {"readStudentsList/get", "readHistoryRows/get"}

RowAppends == {"ensureStudentInSheet/appendRow", "saveWeekToHistory/appendRow"}

HistoryCalls == {"saveWeekToHistory/ensureHistoryHeaders/get",
                 "saveWeekToHistory/ensureHistoryHeaders/update",
                 "saveWeekToHistory/appendRow",
                 "readHistoryRows/ensureHistoryHeaders/get",
                 "readHistoryRows/ensureHistoryHeaders/update",
                 "readHistoryRows/get"}

\* the calls of ensureStudentInSheet, its own and those of readStudentsList
RosterCalls == {"ensureStudentInSheet/ensureStudentsHeaders/get",
                "ensureStudentInSheet/ensureStudentsHeaders/update",
                "readStudentsList/ensureStudentsHeaders/get",
                "readStudentsList/ensureStudentsHeaders/update",
                "readStudentsList/get",
                "ensureStudentInSheet/appendRow"}

\* the calls of saveWeekToHistory
LedgerCalls == {"saveWeekToHistory/ensureHistoryHeaders/get",
                "saveWeekToHistory/ensureHistoryHeaders/update",
                "saveWeekToHistory/appendRow"}

\* where a header check goes on: to its update when the header is not ok,
\* else to (and after the update to) the call that follows the check
UpdateOf(at) ==
    CASE at = "ensureStudentInSheet/ensureStudentsHeaders/get"
           -> "ensureStudentInSheet/ensureStudentsHeaders/update"
      [] at = "readStudentsList/ensureStudentsHeaders/get"
           -> "readStudentsList/ensureStudentsHeaders/update"
      [] at = "saveWeekToHistory/ensureHistoryHeaders/get"
           -> "saveWeekToHistory/ensureHistoryHeaders/update"
      [] at = "readHistoryRows/ensureHistoryHeaders/get"
           -> "readHistoryRows/ensureHistoryHeaders/update"

AfterHeaders(at) ==
    CASE at \in {"ensureStudentInSheet/ensureStudentsHeaders/get",
                 "ensureStudentInSheet/ensureStudentsHeaders/update"}
           -> "readStudentsList/ensureStudentsHeaders/get"
      [] at \in {"readStudentsList/ensureStudentsHeaders/get",
                 "readStudentsList/ensureStudentsHeaders/update"}
           -> "readStudentsList/get"
      [] at \in {"saveWeekToHistory/ensureHistoryHeaders/get",
                 "saveWeekToHistory/ensureHistoryHeaders/update"}
           -> "saveWeekToHistory/appendRow"
      [] at \in {"readHistoryRows/ensureHistoryHeaders/get",
                 "readHistoryRows/ensureHistoryHeaders/update"}
           -> "readHistoryRows/get"

\* a request as its handler reaches its first await.  startCount and
\* startTeachers are what the key of an /endweek request held when the
\* request started, touched whether another request has written the key
\* since, histAdded the rows the request has put into the History sheet.
NewRequest(handler, owner, student, query, at) ==
    [phase |-> "call", handler |-> handler, at |-> at,
     owner |-> owner, student |-> student, query |-> query,
     key |-> ownerStudentKey(owner, student),
     count |-> 0, friday |-> "", teacherSummary |-> "",
     historyAll |-> <<>>, errorBanner |-> "",
     startCount |-> IF handler = "endweek"
                    THEN countOf(currentWeek, ownerStudentKey(owner, student))
                    ELSE 0,
     startTeachers |-> IF handler = "endweek"
                       THEN teachersOf(currentTeachers, ownerStudentKey(owner, student))
                       ELSE <<>>,
     touched |-> FALSE, histAdded |-> <<>>, failedAt |-> "", saved |-> FALSE]

Active(p) == proc[p].phase # "idle"

\* the /endweek requests in flight on key learn that another request wrote it
Touch(pr, key, by) ==
    [p \in Procs |->
        IF p # by /\ pr[p].phase # "idle" /\ pr[p].handler = "endweek"
                  /\ pr[p].key = key
        THEN [pr[p] EXCEPT !.touched = TRUE, !.startCount = 0,
                           !.startTeachers = <<>>]
        ELSE pr[p]]

DataRowCount(sheet) == IF Len(sheet) = 0 THEN 0 ELSE Len(sheet) - 1

\* the /endweek requests that may still append their row
AppendsToCome ==
    Cardinality({p \in Procs : /\ Active(p)
                               /\ proc[p].handler = "endweek"
                               /\ proc[p].histAdded = <<>>})

\* a new spreadsheet; the process runs eight hours behind UTC and it is
\* Wednesday noon
Init ==
    /\ InitServer
    /\ historySheet = <<>>
    /\ studentsSheet = <<>>
    /\ now = [day |-> FirstDay + 2, hour |-> 12]
    /\ tz = -8

\* a counter without its cap
nextCountUncapped(count) == count + 1

\* a counter that stops one short of the cap
nextCountCappedEarly(count) == IF count + 1 < CAP - 1 THEN count + 1 ELSE CAP - 1

\* Math.min((currentWeek[key] || 0) + 1, 5)
nextCount(count) == IF count + 1 < CAP THEN count + 1 ELSE CAP

\* an /add that puts the teacher in front of the list
AddPrepends(user, bodyStudent, bodyTeacher) ==
    LET owner == normalizeOwner(user)
        student == normalizeStudentName(bodyStudent)
        key == ownerStudentKey(owner, student)
        teacher == Trim(bodyTeacher)
    IN  /\ owner # ""
        /\ IF student = ""
           THEN /\ UNCHANGED <<currentWeek, currentTeachers, proc>>
                /\ last' = [op |-> "rejected", handler |-> "add"]
           ELSE /\ currentWeek' =
                     put(currentWeek, key, nextCount(countOf(currentWeek, key)))
                /\ currentTeachers' =
                     IF teacher # ""
                     THEN put(currentTeachers, key,
                              <<teacher>> \o teachersOf(currentTeachers, key))
                     ELSE currentTeachers
                /\ proc' = Touch(proc, key, 0)
                /\ last' = [op |-> "add", key |-> key,
                            owner |-> owner, student |-> student,
                            before |-> countOf(currentWeek, key),
                            teacher |-> bodyTeacher]
        /\ UNCHANGED <<historySheet, studentsSheet, now, tz, clockOut>>

\* app.post("/add")
Add(user, bodyStudent, bodyTeacher) ==
    LET owner == normalizeOwner(user)
        student == normalizeStudentName(bodyStudent)
        key == ownerStudentKey(owner, student)
        teacher == Trim(bodyTeacher)
    IN  /\ owner # ""
        /\ IF student = ""
           THEN /\ UNCHANGED <<currentWeek, currentTeachers, proc>>
                /\ last' = [op |-> "rejected", handler |-> "add"]
           ELSE /\ currentWeek' =
                     put(currentWeek, key, nextCount(countOf(currentWeek, key)))
                /\ currentTeachers' =
                     IF teacher # ""
                     THEN put(currentTeachers, key,
                              Append(teachersOf(currentTeachers, key), teacher))
                     ELSE currentTeachers
                /\ proc' = Touch(proc, key, 0)
                /\ last' = [op |-> "add", key |-> key,
                            owner |-> owner, student |-> student,
                            before |-> countOf(currentWeek, key),
                            teacher |-> bodyTeacher]
        /\ UNCHANGED <<historySheet, studentsSheet, now, tz, clockOut>>

\* a /clearweek that resets the count and keeps the teachers
ClearweekKeepsTeachers(user, bodyStudent) ==
    LET owner == normalizeOwner(user)
        student == normalizeStudentName(bodyStudent)
        key == ownerStudentKey(owner, student)
    IN  /\ owner # ""
        /\ student # ""
        /\ currentWeek' = put(currentWeek, key, 0)
        /\ proc' = Touch(proc, key, 0)
        /\ last' = [op |-> "clearweek", key |-> key,
                    owner |-> owner, student |-> student,
                    before |-> countOf(currentWeek, key)]
        /\ UNCHANGED <<currentTeachers, historySheet, studentsSheet, now, tz,
                       clockOut>>

\* app.post("/clearweek")
Clearweek(user, bodyStudent) ==
    LET owner == normalizeOwner(user)
        student == normalizeStudentName(bodyStudent)
        key == ownerStudentKey(owner, student)
    IN  /\ owner # ""
        /\ IF student = ""
           THEN /\ UNCHANGED <<currentWeek, currentTeachers, proc>>
                /\ last' = [op |-> "rejected", handler |-> "clearweek"]
           ELSE /\ currentWeek' = put(currentWeek, key, 0)
                /\ currentTeachers' = put(currentTeachers, key, <<>>)
                /\ proc' = Touch(proc, key, 0)
                /\ last' = [op |-> "clearweek", key |-> key,
                            owner |-> owner, student |-> student,
                            before |-> countOf(currentWeek, key)]
        /\ UNCHANGED <<historySheet, studentsSheet, now, tz, clockOut>>

\* an async handler that goes on without a student
BeginWithoutStudentCheck(p, handler, user, bodyStudent, at) ==
    LET owner == normalizeOwner(user)
        student == normalizeStudentName(bodyStudent)
    IN  /\ ~Active(p)
        /\ owner # ""
        /\ proc' = [proc EXCEPT
                      ![p] = NewRequest(handler, owner, student, "", at)]
        /\ last' = [op |-> "begin"]
        /\ UNCHANGED <<currentWeek, currentTeachers, historySheet, studentsSheet,
                       now, tz, clockOut>>

\* an async handler up to its first await
Begin(p, handler, user, bodyStudent, at) ==
    LET owner == normalizeOwner(user)
        student == normalizeStudentName(bodyStudent)
    IN  /\ ~Active(p)
        /\ owner # ""
        /\ IF student = ""
           THEN /\ proc' = proc
                /\ last' = [op |-> "rejected", handler |-> handler]
           ELSE /\ proc' = [proc EXCEPT
                              ![p] = NewRequest(handler, owner, student, "", at)]
                /\ last' = [op |-> "begin"]
        /\ UNCHANGED <<currentWeek, currentTeachers, historySheet, studentsSheet,
                       now, tz, clockOut>>

\* app.post("/endweek"), to the first await of ensureStudentInSheet
BeginEndweek(p, user, bodyStudent) ==
    Begin(p, "endweek", user, bodyStudent,
          "ensureStudentInSheet/ensureStudentsHeaders/get")

\* app.post("/addstudent"), to the first await of ensureStudentInSheet
BeginAddstudent(p, user, bodyStudent) ==
    Begin(p, "addstudent", user, bodyStudent,
          "ensureStudentInSheet/ensureStudentsHeaders/get")

-----------------------------------------------------------------------------
(* A call of the store and the code that runs when the handler resumes      *)

SheetOf(at) == IF at \in HistoryCalls THEN historySheet ELSE studentsSheet

\* the row the call writes
RowOf(r) ==
    CASE r.at \in HeaderUpdates /\ r.at \in HistoryCalls -> wantedHistory
      [] r.at \in HeaderUpdates /\ r.at \notin HistoryCalls -> wantedStudents
      [] r.at = "ensureStudentInSheet/appendRow" -> <<r.owner, r.student>>
      [] r.at = "saveWeekToHistory/appendRow"
           -> <<normalizeOwner(r.owner), r.student, r.friday,
                NumToStr(r.count), r.teacherSummary>>
      [] OTHER -> <<>>

\* the sheet once the call is performed
Performed(r) ==
    CASE r.at \in HeaderUpdates -> updateFirstRow(SheetOf(r.at), RowOf(r))
      [] r.at \in RowAppends -> appendRow(SheetOf(r.at), RowOf(r))
      [] OTHER -> SheetOf(r.at)

\* what a successful call answers
Answer(r) ==
    CASE r.at \in HeaderGets -> getFirstRow(SheetOf(r.at))
      [] r.at \in RowGets -> getAllRows(SheetOf(r.at))
      [] OTHER -> <<>>

\* how a call ends: it is performed and answered, it fails and leaves the
\* sheet as it was, or (a write) it is performed and its answer is lost, so
\* that the caller gets an error
Thrown == {"fail", "lost"}

\* the store's part of the step of p
Store(p, outcome) ==
    LET r == proc[p]
        sheet == IF outcome = "fail" THEN SheetOf(r.at) ELSE Performed(r)
    IN  /\ Active(p)
        /\ outcome = "lost" => r.at \in HeaderUpdates \cup RowAppends
        /\ IF r.at \in HistoryCalls
           THEN historySheet' = sheet /\ UNCHANGED studentsSheet
           ELSE studentsSheet' = sheet /\ UNCHANGED historySheet

\* the request once the store has taken its step
Returned(r, outcome) ==
    [r EXCEPT !.histAdded = IF outcome # "fail" /\ r.at = "saveWeekToHistory/appendRow"
                            THEN Append(@, RowOf(r)) ELSE @]

\* the request awaits its next call
Await(p, r, at) ==
    /\ proc' = [proc EXCEPT ![p] = [r EXCEPT !.at = at]]
    /\ last' = [op |-> "step"]

\* the request is answered (res.redirect, res.send)
Finish(p, pr, answer) ==
    /\ proc' = [pr EXCEPT ![p] = Idle]
    /\ last' = answer

\* ensureHistoryHeaders, ensureStudentsHeaders: the get of row 1 and the test
ResumeHeaderGet(p) ==
    LET r == proc[p]
        ok == IF r.at \in HistoryCalls THEN historyHeadersOk(Answer(r))
              ELSE studentsHeadersOk(Answer(r))
    IN  /\ Store(p, "ok")
        /\ r.at \in HeaderGets
        /\ Await(p, r, IF ok THEN AfterHeaders(r.at) ELSE UpdateOf(r.at))
        /\ UNCHANGED <<currentWeek, currentTeachers, now, tz, clockOut>>

\* ensureHistoryHeaders, ensureStudentsHeaders: the update of row 1
ResumeHeaderUpdate(p) ==
    LET r == proc[p]
    IN  /\ Store(p, "ok")
        /\ r.at \in HeaderUpdates
        /\ Await(p, r, AfterHeaders(r.at))
        /\ UNCHANGED <<currentWeek, currentTeachers, now, tz, clockOut>>

\* a search of the roster that compares the names as they are written
studentExistsExactly(existing, o, student) ==
    \E i \in 1..Len(existing) :
        /\ existing[i].owner = o
        /\ existing[i].student = student

\* ensureStudentInSheet: const exists = existing.some(...)
studentExists(existing, o, student) ==
    \E i \in 1..Len(existing) :
        /\ existing[i].owner = o
        /\ ToLowerCase(existing[i].student) = ToLowerCase(student)

\* the teacher summary of /endweek: map(trim), filter(Boolean), join("; ")
RECURSIVE joinTeachers(_)
joinTeachers(teachers) ==
    IF Len(teachers) = 0 THEN ""
    ELSE LET t == Trim(Head(teachers))
             rest == joinTeachers(Tail(teachers))
         IN  IF t = "" THEN rest
             ELSE IF rest = "" THEN t ELSE t \o "; " \o rest

\* an /endweek that records the empty summary whatever the teachers
captureWeekWithoutTeachers(r) ==
    [r EXCEPT !.count = countOf(currentWeek, r.key),
              !.friday = getWeekEndingFridayISO(now, tz),
              !.teacherSummary = ""]

\* /endweek between ensureStudentInSheet and saveWeekToHistory: count, friday
\* and teacherSummary are taken
captureWeek(r) ==
    [r EXCEPT !.count = countOf(currentWeek, r.key),
              !.friday = getWeekEndingFridayISO(now, tz),
              !.teacherSummary = joinTeachers(teachersOf(currentTeachers, r.key))]

\* /addstudent after its try block: the key is materialised
ResumeAddstudentEnd(p, r) ==
    /\ currentWeek' = put(currentWeek, r.key, countOf(currentWeek, r.key))
    /\ currentTeachers' = put(currentTeachers, r.key, teachersOf(currentTeachers, r.key))
    /\ Finish(p, proc, [op |-> "addstudent", req |-> r])

\* ensureStudentInSheet has returned to its caller
AfterEnsureStudent(p, r) ==
    IF r.handler = "endweek"
    THEN /\ Await(p, captureWeek(r), "saveWeekToHistory/ensureHistoryHeaders/get")
         /\ UNCHANGED <<currentWeek, currentTeachers>>
    ELSE ResumeAddstudentEnd(p, r)

\* ensureStudentInSheet: readStudentsList returns and the roster is searched
ResumeRosterCheck(p) ==
    LET r == proc[p]
        existing == parseStudentsList(Answer(r))
    IN  /\ Store(p, "ok")
        /\ r.handler \in {"endweek", "addstudent"}
        /\ r.at = "readStudentsList/get"
        /\ IF studentExists(existing, normalizeOwner(r.owner), r.student)
           THEN AfterEnsureStudent(p, r)
           ELSE /\ Await(p, r, "ensureStudentInSheet/appendRow")
                /\ UNCHANGED <<currentWeek, currentTeachers>>
        /\ UNCHANGED <<now, tz, clockOut>>

\* ensureStudentInSheet: its appendRow
ResumeRosterAppend(p) ==
    LET r == proc[p]
    IN  /\ Store(p, "ok")
        /\ r.at = "ensureStudentInSheet/appendRow"
        /\ AfterEnsureStudent(p, r)
        /\ UNCHANGED <<now, tz, clockOut>>

\* /endweek: the appendRow of saveWeekToHistory, then the key is reset
ResumeEndweekSaved(p) ==
    LET r == Returned(proc[p], "ok")
    IN  /\ Store(p, "ok")
        /\ r.at = "saveWeekToHistory/appendRow"
        /\ currentWeek' = put(currentWeek, r.key, 0)
        /\ currentTeachers' = put(currentTeachers, r.key, <<>>)
        /\ Finish(p, Touch(proc, r.key, p),
                  [op |-> "endweek",
                   req |-> [r EXCEPT !.saved = TRUE]])
        /\ UNCHANGED <<now, tz, clockOut>>

\* an /endweek whose catch block resets the key
ResumeEndweekCatchResets(p, outcome) ==
    LET r == Returned(proc[p], outcome)
    IN  /\ Store(p, outcome)
        /\ r.handler = "endweek"
        /\ currentWeek' = put(currentWeek, r.key, 0)
        /\ currentTeachers' = put(currentTeachers, r.key, <<>>)
        /\ Finish(p, proc, [op |-> "endweek",
                            req |-> [r EXCEPT !.failedAt = r.at]])
        /\ UNCHANGED <<now, tz, clockOut>>

\* /endweek: a call inside the try block threw, the catch block logs
ResumeEndweekCatch(p, outcome) ==
    LET r == Returned(proc[p], outcome)
    IN  /\ Store(p, outcome)
        /\ r.handler = "endweek"
        /\ Finish(p, proc, [op |-> "endweek",
                            req |-> [r EXCEPT !.failedAt = r.at]])
        /\ UNCHANGED <<currentWeek, currentTeachers, now, tz, clockOut>>

\* /addstudent: ensureStudentInSheet threw, the catch block logs
ResumeAddstudentCatch(p, outcome) ==
    LET r == proc[p]
    IN  /\ Store(p, outcome)
        /\ r.handler = "addstudent"
        /\ ResumeAddstudentEnd(p, [r EXCEPT !.failedAt = r.at])
        /\ UNCHANGED <<now, tz, clockOut>>

\* the requests the specification makes stay within its bounds
TeacherFits(user, bodyStudent, bodyTeacher) ==
    \/ Trim(bodyTeacher) = ""
    \/ Len(teachersOf(currentTeachers,
                      ownerStudentKey(normalizeOwner(user),
                                      normalizeStudentName(bodyStudent))))
         < MaxTeachers

BystanderFits(user, bodyStudent) ==
    countOf(currentWeek, ownerStudentKey(normalizeOwner(user),
                                         normalizeStudentName(bodyStudent)))
      < MaxBystander

LedgerFits == DataRowCount(historySheet) + AppendsToCome < MaxLedger

Next ==
    \/ \E u \in Users, s \in NamedStudents, t \in BodyTeachers :
          TeacherFits(u, s, t) /\ Add(u, s, t)
    \/ \E u \in Bystanders : BystanderFits(u, " s") /\ Add(u, " s", "")
    \/ \E u \in Users, s \in NamedStudents : Clearweek(u, s)
    \/ \E p \in Sequential, u \in Users, s \in NamedStudents :
          LedgerFits /\ BeginEndweek(p, u, s)
    \/ \E p \in Sequential, u \in Users, s \in NamedStudents : BeginAddstudent(p, u, s)
    \/ \E p \in Sequential : ResumeHeaderGet(p)
    \/ \E p \in Sequential : ResumeHeaderUpdate(p)
    \/ \E p \in Sequential : ResumeRosterCheck(p)
    \/ \E p \in Sequential : ResumeRosterAppend(p)
    \/ \E p \in Sequential : ResumeEndweekSaved(p)
    \/ \E p \in Sequential, o \in Thrown : ResumeEndweekCatch(p, o)
    \/ \E p \in Sequential, o \in Thrown : ResumeAddstudentCatch(p, o)

Spec == Init /\ [][Next]_vars

-----------------------------------------------------------------------------
(* SpecBlank: the four POST handlers called without a student (an empty or  *)
(* blank req.body.student), over counters and sheets left by earlier        *)
(* requests.                                                                *)

BlankWeeks == { NoKeys } \cup [{"a||s"} -> 0..CAP]

BlankHistories ==
    { <<>>,
      <<wantedHistory>>,
      <<wantedHistory, <<"a", "s", "2024-03-15", "3", "t">>>>,
      <<wantedHistory, <<"a", "s", "2024-03-15", "3", "t">>,
                       <<"a", "r", "2024-03-08", "4", "">>>> }

BlankRosters ==
    { <<>>,
      <<wantedStudents>>,
      <<wantedStudents, <<"a", "u">>>> }

InitBlank ==
    /\ currentWeek \in BlankWeeks
    /\ currentTeachers = [k \in DOMAIN currentWeek |-> <<"t">>]
    /\ proc = [p \in Procs |-> Idle]
    /\ last = NoStep
    /\ clockOut = ""
    /\ historySheet \in BlankHistories
    /\ studentsSheet \in BlankRosters
    /\ now = [day |-> FirstDay, hour |-> 0]
    /\ tz = 0

NextBlank ==
    \/ \E u \in Users, s \in BlankStudents, t \in BodyTeachers : Add(u, s, t)
    \/ \E u \in Users, s \in BlankStudents : Clearweek(u, s)
    \/ \E p \in Sequential, u \in Users, s \in BlankStudents : BeginEndweek(p, u, s)
    \/ \E p \in Sequential, u \in Users, s \in BlankStudents : BeginAddstudent(p, u, s)

SpecBlank == InitBlank /\ [][NextBlank]_vars

-----------------------------------------------------------------------------
(* SpecRetry: /endweek of one key called again and again, one attempt after *)
(* the other, until an attempt is saved; every store call succeeds, fails   *)
(* or (a write) loses its answer, and nothing else writes the key.  The     *)
(* History sheet starts without a record of the key for the current week.   *)

MaxRetryRows == 3    \* rows of the History sheet when an attempt may start

RetryWeeks == [{"a||s"} -> 0..CAP]

RetryTeachers == { <<>>, <<"t">>, <<"t", "u">> }

RetryHistories ==
    { <<>>,
      <<wantedHistory>>,
      <<wantedHistory, <<"a", "s", "2024-03-08", "4", "x">>>> }

InitRetry ==
    /\ currentWeek \in RetryWeeks
    /\ currentTeachers \in [{"a||s"} -> RetryTeachers]
    /\ proc = [p \in Procs |-> Idle]
    /\ last = NoStep
    /\ clockOut = ""
    /\ historySheet \in RetryHistories
    /\ studentsSheet = <<wantedStudents, <<"a", "s">>>>
    /\ now = [day |-> FirstDay + 2, hour |-> 12]
    /\ tz = -8

\* an attempt may start: none was saved yet, and the sheet has room
RetryFits ==
    /\ ~(last.op = "endweek" /\ last.req.saved)
    /\ Len(historySheet) <= MaxRetryRows

NextRetry ==
    \/ \E p \in Sequential, u \in Users, s \in NamedStudents :
          RetryFits /\ BeginEndweek(p, u, s)
    \/ \E p \in Sequential : ResumeHeaderGet(p)
    \/ \E p \in Sequential : ResumeHeaderUpdate(p)
    \/ \E p \in Sequential : ResumeRosterCheck(p)
    \/ \E p \in Sequential : ResumeEndweekSaved(p)
    \/ \E p \in Sequential, o \in Thrown : ResumeEndweekCatch(p, o)

SpecRetry == InitRetry /\ [][NextRetry]_vars

-----------------------------------------------------------------------------
(* SpecRegister: /addstudent and /endweek called one request at a time with *)
(* names that differ in case and surrounding whitespace only, over rosters  *)
(* that hold a row of the name already, for this tenant, for another one,   *)
(* or written by hand in capitals.                                          *)

RegisterNames == {" s", "S", "s "}

RegisterUsers == {"a", "A "}

RegisterRosters ==
    { <<>>,
      <<wantedStudents>>,
      <<wantedStudents, <<"a", "s">>>>,
      <<wantedStudents, <<"b", "s">>>>,
      <<wantedStudents, <<"A", " S">>>> }

InitRegister ==
    /\ currentWeek = NoKeys
    /\ currentTeachers = NoKeys
    /\ proc = [p \in Procs |-> Idle]
    /\ last = NoStep
    /\ clockOut = ""
    /\ historySheet = <<>>
    /\ studentsSheet \in RegisterRosters
    /\ now = [day |-> FirstDay + 2, hour |-> 12]
    /\ tz = -8

NextRegister ==
    \/ \E p \in Sequential, u \in RegisterUsers, s \in RegisterNames :
          BeginAddstudent(p, u, s)
    \/ \E p \in Sequential, u \in RegisterUsers, s \in RegisterNames :
          LedgerFits /\ BeginEndweek(p, u, s)
    \/ \E p \in Sequential : ResumeHeaderGet(p)
    \/ \E p \in Sequential : ResumeHeaderUpdate(p)
    \/ \E p \in Sequential : ResumeRosterCheck(p)
    \/ \E p \in Sequential : ResumeRosterAppend(p)
    \/ \E p \in Sequential : ResumeEndweekSaved(p)
    \/ \E p \in Sequential, o \in Thrown : ResumeEndweekCatch(p, o)
    \/ \E p \in Sequential, o \in Thrown : ResumeAddstudentCatch(p, o)

SpecRegister == InitRegister /\ [][NextRegister]_vars

-----------------------------------------------------------------------------
(* SpecNotes: /add with and without a teacher, /clearweek, and the first    *)
(* /endweek of the sheet, on one key; /add and /clearweek also run while    *)
(* /endweek awaits the store.                                               *)

MaxNotes == 2        \* count up to which /add is called

NoteInputs == {"", " ", " t", "u "}

NotesFit(user, bodyStudent) ==
    countOf(currentWeek, ownerStudentKey(normalizeOwner(user),
                                         normalizeStudentName(bodyStudent)))
      < MaxNotes

InitNotes ==
    /\ currentWeek = NoKeys
    /\ currentTeachers = NoKeys
    /\ proc = [p \in Procs |-> Idle]
    /\ last = NoStep
    /\ clockOut = ""
    /\ historySheet \in { <<>>, <<wantedHistory>> }
    /\ studentsSheet \in { <<>>, <<wantedStudents, <<"a", "s">>>> }
    /\ now = [day |-> FirstDay + 2, hour |-> 12]
    /\ tz = -8

\* no /endweek has appended or is about to
FirstEndweek == DataRowCount(historySheet) = 0 /\ AppendsToCome = 0

NextNotes ==
    \/ \E u \in Users, s \in NamedStudents, t \in NoteInputs :
          NotesFit(u, s) /\ Add(u, s, t)
    \/ \E u \in Users, s \in NamedStudents : Clearweek(u, s)
    \/ \E p \in Sequential, u \in Users, s \in NamedStudents :
          FirstEndweek /\ BeginEndweek(p, u, s)
    \/ \E p \in Sequential : ResumeHeaderGet(p)
    \/ \E p \in Sequential : ResumeHeaderUpdate(p)
    \/ \E p \in Sequential : ResumeRosterCheck(p)
    \/ \E p \in Sequential : ResumeRosterAppend(p)
    \/ \E p \in Sequential : ResumeEndweekSaved(p)

SpecNotes == InitNotes /\ [][NextNotes]_vars

-----------------------------------------------------------------------------
(* SpecAdds: /add requests that are in the server at the same time.  A      *)
(* request is received (Express has it, its handler has not run) and then   *)
(* served: the handler of /add has no await, so it runs from its first line *)
(* to res.redirect in one step of the event loop, whatever else is pending. *)

AddStudents == {" s", ""}

\* a received /add request; startCount is the count of its key on arrival
AddRequest(user, bodyStudent, bodyTeacher) ==
    [phase |-> "call", handler |-> "add", at |-> "handler",
     user |-> user, bodyStudent |-> bodyStudent, bodyTeacher |-> bodyTeacher,
     key |-> ownerStudentKey(normalizeOwner(user), normalizeStudentName(bodyStudent)),
     startCount |-> countOf(currentWeek,
                            ownerStudentKey(normalizeOwner(user),
                                            normalizeStudentName(bodyStudent)))]

InitAdds ==
    /\ currentWeek \in { NoKeys } \cup [{"a||s"} -> 0..CAP]
    /\ currentTeachers = NoKeys
    /\ proc = [p \in Procs |-> Idle]
    /\ last = NoStep
    /\ clockOut = ""
    /\ historySheet = <<>>
    /\ studentsSheet = <<>>
    /\ now = [day |-> FirstDay + 2, hour |-> 12]
    /\ tz = -8

ReceiveAdd(p, user, bodyStudent, bodyTeacher) ==
    /\ ~Active(p)
    /\ proc' = [proc EXCEPT ![p] = AddRequest(user, bodyStudent, bodyTeacher)]
    /\ last' = [op |-> "begin"]
    /\ UNCHANGED <<currentWeek, currentTeachers, historySheet, studentsSheet,
                   now, tz, clockOut>>

\* an /add that writes the count it found on arrival, plus one
ServeAddFromStart(p) ==
    LET r == proc[p]
        owner == normalizeOwner(r.user)
        student == normalizeStudentName(r.bodyStudent)
        key == ownerStudentKey(owner, student)
        teacher == Trim(r.bodyTeacher)
    IN  /\ Active(p)
        /\ r.handler = "add"
        /\ owner # ""
        /\ IF student = ""
           THEN /\ UNCHANGED <<currentWeek, currentTeachers>>
                /\ Finish(p, proc, [op |-> "rejected", handler |-> "add"])
           ELSE /\ currentWeek' = put(currentWeek, key, nextCount(r.startCount))
                /\ currentTeachers' =
                     IF teacher # ""
                     THEN put(currentTeachers, key,
                              Append(teachersOf(currentTeachers, key), teacher))
                     ELSE currentTeachers
                /\ Finish(p, proc, [op |-> "add", key |-> key,
                                    owner |-> owner, student |-> student,
                                    before |-> countOf(currentWeek, key),
                                    teacher |-> r.bodyTeacher,
                                    started |-> r.startCount])
        /\ UNCHANGED <<historySheet, studentsSheet, now, tz, clockOut>>

\* app.post("/add"): the handler runs
ServeAdd(p) ==
    LET r == proc[p]
        owner == normalizeOwner(r.user)
        student == normalizeStudentName(r.bodyStudent)
        key == ownerStudentKey(owner, student)
        teacher == Trim(r.bodyTeacher)
    IN  /\ Active(p)
        /\ r.handler = "add"
        /\ owner # ""
        /\ IF student = ""
           THEN /\ UNCHANGED <<currentWeek, currentTeachers>>
                /\ Finish(p, proc, [op |-> "rejected", handler |-> "add"])
           ELSE /\ currentWeek' =
                     put(currentWeek, key, nextCount(countOf(currentWeek, key)))
                /\ currentTeachers' =
                     IF teacher # ""
                     THEN put(currentTeachers, key,
                              Append(teachersOf(currentTeachers, key), teacher))
                     ELSE currentTeachers
                /\ Finish(p, proc, [op |-> "add", key |-> key,
                                    owner |-> owner, student |-> student,
                                    before |-> countOf(currentWeek, key),
                                    teacher |-> r.bodyTeacher,
                                    started |-> r.startCount])
        /\ UNCHANGED <<historySheet, studentsSheet, now, tz, clockOut>>

NextAdds ==
    \/ \E p \in Procs, u \in Users, s \in AddStudents, t \in BodyTeachers :
          TeacherFits(u, s, t) /\ ReceiveAdd(p, u, s, t)
    \/ \E p \in Procs : ServeAdd(p)

SpecAdds == InitAdds /\ [][NextAdds]_vars

-----------------------------------------------------------------------------
(* SpecSaturate: /add with a teacher called on a key up to and beyond the   *)
(* cap of its count, with /clearweek and the first /endweek of the sheet.   *)

MaxOverCap == 1      \* teachers a key's list may hold beyond CAP

SaturateInputs == {"", " t"}

SaturateFits(user, bodyStudent) ==
    Len(teachersOf(currentTeachers,
                   ownerStudentKey(normalizeOwner(user),
                                   normalizeStudentName(bodyStudent))))
      < CAP + MaxOverCap

NextSaturate ==
    \/ \E u \in Users, s \in NamedStudents, t \in SaturateInputs :
          SaturateFits(u, s) /\ Add(u, s, t)
    \/ \E u \in Users, s \in NamedStudents : Clearweek(u, s)
    \/ \E p \in Sequential, u \in Users, s \in NamedStudents :
          FirstEndweek /\ BeginEndweek(p, u, s)
    \/ \E p \in Sequential : ResumeHeaderGet(p)
    \/ \E p \in Sequential : ResumeHeaderUpdate(p)
    \/ \E p \in Sequential : ResumeRosterCheck(p)
    \/ \E p \in Sequential : ResumeRosterAppend(p)
    \/ \E p \in Sequential : ResumeEndweekSaved(p)

SpecSaturate == Init /\ [][NextSaturate]_vars

-----------------------------------------------------------------------------
(* SpecRace: /endweek of one key called by requests that run at the same    *)
(* time, every store call succeeding, and nothing else writing the key.     *)
(* What a request appends depends on the order of the handlers' steps only  *)
(* (the count is taken and reset in the handler); what its store calls read *)
(* decides which header and roster calls follow, not the record.  A second  *)
(* key of the tenant starts with the same count and is left alone.          *)

MaxRaceRows == 2     \* records the requests of SpecRace append in all

RaceWeeks == { [k \in {"a||s", "a||r"} |-> c] : c \in 0..CAP }

RaceTeachers == { <<>>, <<"t">> }

RaceHistories == { <<>>, <<wantedHistory>> }

RaceRosters == { <<>>, <<wantedStudents, <<"a", "s">>>> }

InitRace ==
    /\ currentWeek \in RaceWeeks
    /\ currentTeachers \in [{"a||s"} -> RaceTeachers]
    /\ proc = [p \in Procs |-> Idle]
    /\ last = NoStep
    /\ clockOut = ""
    /\ historySheet \in RaceHistories
    /\ studentsSheet \in RaceRosters
    /\ now = [day |-> FirstDay + 2, hour |-> 12]
    /\ tz = -8

RaceFits == DataRowCount(historySheet) + AppendsToCome < MaxRaceRows

NextRace ==
    \/ \E p \in Procs, u \in Users, s \in NamedStudents :
          RaceFits /\ BeginEndweek(p, u, s)
    \/ \E p \in Procs : ResumeHeaderGet(p)
    \/ \E p \in Procs : ResumeHeaderUpdate(p)
    \/ \E p \in Procs : ResumeRosterCheck(p)
    \/ \E p \in Procs : ResumeRosterAppend(p)
    \/ \E p \in Procs : ResumeEndweekSaved(p)

SpecRace == InitRace /\ [][NextRace]_vars

-----------------------------------------------------------------------------
(* SpecPage: app.get("/") await by await, each store call succeeding,       *)
(* failing or (a header update) losing its answer, over sheets and counters *)
(* left by earlier requests.                                                *)

PageHistories ==
    { <<>>,
      <<wantedHistory>>,
      <<wantedHistory, <<"a", "s", "2024-03-15", "3", "t">>>>,
      <<wantedHistory, <<"a", "s", "2024-03-15", "3", "t">>,
                       <<"a", "r", "2024-03-08", "4", "">>>> }

PageRosters ==
    { <<>>,
      <<wantedStudents>>,
      <<wantedStudents, <<"a", "u">>>> }

PageWeeks == { NoKeys, [k \in {"a||s"} |-> 2] }

InitPage ==
    /\ currentWeek \in PageWeeks
    /\ currentTeachers = [k \in DOMAIN currentWeek |-> <<"t">>]
    /\ proc = [p \in Procs |-> Idle]
    /\ last = NoStep
    /\ clockOut = ""
    /\ historySheet \in PageHistories
    /\ studentsSheet \in PageRosters
    /\ now = [day |-> FirstDay, hour |-> 0]
    /\ tz = 0

\* app.get("/"), to the first await of readHistoryRows
BeginPage(p, user, queryStudent) ==
    LET owner == normalizeOwner(user)
    IN  /\ ~Active(p)
        /\ owner # ""
        /\ proc' = [proc EXCEPT
                      ![p] = NewRequest("page", owner, "", queryStudent,
                                        "readHistoryRows/ensureHistoryHeaders/get")]
        /\ last' = [op |-> "begin"]
        /\ UNCHANGED <<currentWeek, currentTeachers, historySheet, studentsSheet,
                       now, tz, clockOut>>

\* /: readHistoryRows returns, historyAll is set
ResumePageHistory(p) ==
    LET r == proc[p]
    IN  /\ Store(p, "ok")
        /\ r.handler = "page"
        /\ r.at = "readHistoryRows/get"
        /\ Await(p, [r EXCEPT !.historyAll = parseHistoryRows(Answer(r))],
                 "readStudentsList/ensureStudentsHeaders/get")
        /\ UNCHANGED <<currentWeek, currentTeachers, now, tz, clockOut>>

\* a catch block that drops the error of readHistoryRows
ResumePageHistoryCatchSilent(p, outcome) ==
    LET r == proc[p]
    IN  /\ Store(p, outcome)
        /\ r.handler = "page"
        /\ r.at \in HistoryCalls
        /\ Await(p, [r EXCEPT !.failedAt = r.at],
                 "readStudentsList/ensureStudentsHeaders/get")
        /\ UNCHANGED <<currentWeek, currentTeachers, now, tz, clockOut>>

\* /: a call of readHistoryRows threw, historyAll stays [] and the banner
\* is set
ResumePageHistoryCatch(p, outcome) ==
    LET r == proc[p]
    IN  /\ Store(p, outcome)
        /\ r.handler = "page"
        /\ r.at \in HistoryCalls
        /\ Await(p, [r EXCEPT !.errorBanner = "History read error",
                              !.failedAt = r.at],
                 "readStudentsList/ensureStudentsHeaders/get")
        /\ UNCHANGED <<currentWeek, currentTeachers, now, tz, clockOut>>

\* /: from the end of the second try block to res.send
SendPage(p, r, studentsRows, errorBanner, studentsFailed) ==
    LET page == pageOf(r.historyAll, studentsRows, errorBanner, r.owner,
                       r.query, currentWeek)
        key == ownerStudentKey(r.owner, page.selected)
    IN  /\ currentWeek' = put(currentWeek, key, countOf(currentWeek, key))
        /\ currentTeachers' = put(currentTeachers, key, teachersOf(currentTeachers, key))
        /\ Finish(p, proc, [op |-> "page", page |-> page,
                            historyFailed |-> r.failedAt # "",
                            studentsFailed |-> studentsFailed])

\* /: readStudentsList returns, the page is computed and sent
ResumePageStudents(p) ==
    LET r == proc[p]
    IN  /\ Store(p, "ok")
        /\ r.handler = "page"
        /\ r.at = "readStudentsList/get"
        /\ SendPage(p, r, parseStudentsList(Answer(r)), r.errorBanner, FALSE)
        /\ UNCHANGED <<now, tz, clockOut>>

\* /: a call of readStudentsList threw, studentsRows stays [] and the banner
\* is set; the page is computed and sent
ResumePageStudentsCatch(p, outcome) ==
    LET r == proc[p]
    IN  /\ Store(p, outcome)
        /\ r.handler = "page"
        /\ r.at \notin HistoryCalls
        /\ SendPage(p, r, <<>>, "Students read error", TRUE)
        /\ UNCHANGED <<now, tz, clockOut>>

NextPage ==
    \/ \E p \in Sequential, u \in Users, q \in PageQueries : BeginPage(p, u, q)
    \/ \E p \in Sequential : ResumeHeaderGet(p)
    \/ \E p \in Sequential : ResumeHeaderUpdate(p)
    \/ \E p \in Sequential : ResumePageHistory(p)
    \/ \E p \in Sequential, o \in Thrown : ResumePageHistoryCatch(p, o)
    \/ \E p \in Sequential : ResumePageStudents(p)
    \/ \E p \in Sequential, o \in Thrown : ResumePageStudentsCatch(p, o)

SpecPage == InitPage /\ [][NextPage]_vars

-----------------------------------------------------------------------------
(* SpecAppend: every handler that calls the store or writes a counter, one  *)
(* request at a time, over a History sheet that may already hold last       *)
(* week's record; calls fail or lose their answer, so that /endweek is      *)
(* repeated and appends the same record again.                              *)

MaxAppendRows == 3   \* rows of the History sheet when an /endweek may start
MaxAppendCount == 1  \* count up to which /add is called

AppendFits(user, bodyStudent) ==
    countOf(currentWeek, ownerStudentKey(normalizeOwner(user),
                                         normalizeStudentName(bodyStudent)))
      < MaxAppendCount

InitAppend ==
    /\ currentWeek = NoKeys
    /\ currentTeachers = NoKeys
    /\ proc = [p \in Procs |-> Idle]
    /\ last = NoStep
    /\ clockOut = ""
    /\ historySheet \in RetryHistories
    /\ studentsSheet = <<>>
    /\ now = [day |-> FirstDay + 2, hour |-> 12]
    /\ tz = -8

NextAppend ==
    \/ \E u \in Users, s \in NamedStudents : AppendFits(u, s) /\ Add(u, s, "")
    \/ \E u \in Users, s \in NamedStudents : Clearweek(u, s)
    \/ \E p \in Sequential, u \in Users, s \in NamedStudents :
          Len(historySheet) <= MaxAppendRows /\ BeginEndweek(p, u, s)
    \/ \E p \in Sequential, u \in Users, s \in NamedStudents : BeginAddstudent(p, u, s)
    \/ \E p \in Sequential, u \in Users : BeginPage(p, u, "")
    \/ \E p \in Sequential : ResumeHeaderGet(p)
    \/ \E p \in Sequential : ResumeHeaderUpdate(p)
    \/ \E p \in Sequential : ResumeRosterCheck(p)
    \/ \E p \in Sequential : ResumeRosterAppend(p)
    \/ \E p \in Sequential : ResumeEndweekSaved(p)
    \/ \E p \in Sequential, o \in Thrown : ResumeEndweekCatch(p, o)
    \/ \E p \in Sequential, o \in Thrown : ResumeAddstudentCatch(p, o)
    \/ \E p \in Sequential : ResumePageHistory(p)
    \/ \E p \in Sequential, o \in Thrown : ResumePageHistoryCatch(p, o)
    \/ \E p \in Sequential : ResumePageStudents(p)
    \/ \E p \in Sequential, o \in Thrown : ResumePageStudentsCatch(p, o)

SpecAppend == InitAppend /\ [][NextAppend]_vars


-----------------------------------------------------------------------------
(* SpecKeys: /add, /clearweek and /endweek by two tenants whose names, like *)
(* the students' names, may hold the characters "||" (a user name is any    *)
(* text typed at the login).                                                *)

KeyUsers == {"a", "a||b"}

KeyStudents == {"c", "b||c"}

InitKeys ==
    /\ currentWeek = NoKeys
    /\ currentTeachers = NoKeys
    /\ proc = [p \in Procs |-> Idle]
    /\ last = NoStep
    /\ clockOut = ""
    /\ historySheet = <<>>
    /\ studentsSheet = <<>>
    /\ now = [day |-> FirstDay + 2, hour |-> 12]
    /\ tz = -8

NextKeys ==
    \/ \E u \in KeyUsers, s \in KeyStudents, t \in BodyTeachers :
          AppendFits(u, s) /\ Add(u, s, t)
    \/ \E u \in KeyUsers, s \in KeyStudents : Clearweek(u, s)
    \/ \E p \in Sequential, u \in KeyUsers, s \in KeyStudents :
          LedgerFits /\ BeginEndweek(p, u, s)
    \/ \E p \in Sequential : ResumeHeaderGet(p)
    \/ \E p \in Sequential : ResumeHeaderUpdate(p)
    \/ \E p \in Sequential : ResumeRosterCheck(p)
    \/ \E p \in Sequential : ResumeRosterAppend(p)
    \/ \E p \in Sequential : ResumeEndweekSaved(p)

SpecKeys == InitKeys /\ [][NextKeys]_vars

-----------------------------------------------------------------------------
(* What the claims call a well-formed record, stated on the raw rows *)

\* a count that is non-numeric text
NonNumericText(cell) ==
    /\ Trim(cell) # ""
    /\ \E i \in 1..Len(Trim(cell)) : ~IsDigit(Char(Trim(cell), i))

\* neither tenant nor subject missing, weekEnding not blank, count not
\* non-numeric text
WellFormedRow(r) ==
    /\ Trim(Cell(r, 1)) # ""
    /\ Trim(Cell(r, 2)) # ""
    /\ Trim(Cell(r, 3)) # ""
    /\ ~NonNumericText(Cell(r, 4))

\* the data rows (below the header row) of a sheet
DataRows(sheet) == 2..Len(sheet)

\* the well-formed History rows of tenant owner and subject selected
MatchingRows(owner, selected) ==
    { i \in DataRows(historySheet) :
        /\ WellFormedRow(historySheet[i])
        /\ ToLowerCase(Trim(Cell(historySheet[i], 1))) = owner
        /\ Trim(Cell(historySheet[i], 2)) = selected }

WeekOfRow(i) == Trim(Cell(historySheet[i], 3))

CountOfRow(i) == Number(Trim(Cell(historySheet[i], 4))).val

\* the History sheet without its malformed data rows
RECURSIVE WellFormedOnly(_)
WellFormedOnly(sheet) ==
    IF Len(sheet) = 0 THEN <<>>
    ELSE WellFormedOnly(SubSeq(sheet, 1, Len(sheet) - 1))
         \o (IF Len(sheet) = 1 \/ WellFormedRow(sheet[Len(sheet)])
             THEN <<sheet[Len(sheet)]>> ELSE <<>>)

PageRead == last.op = "page"

-----------------------------------------------------------------------------
(* C8 (as claimed): the week clock returns the Friday of the local week of  *)
(* now: now + (5 - weekday) days from Monday to Friday, one day earlier on  *)
(* Saturday, two days earlier on Sunday.                                    *)

ClaimedFriday(day) ==
    LET weekday == (day + 4) % 7
    IN  IF weekday = 6 THEN day - 1
        ELSE IF weekday = 0 THEN day - 2
        ELSE day + (5 - weekday)

C8_ClockGivesLocalFriday ==
    clockOut # "" => clockOut = "2024-03-" \o TwoDigits(ClaimedFriday(now.day))

-----------------------------------------------------------------------------
(* C6: weeklyHistory(tenant, subject) has exactly one entry for each        *)
(* weekEnding that occurs among the well-formed records of that tenant and  *)
(* subject, and the entry's count is the maximum count of those records for *)
(* that weekEnding, whatever the order of the records.                      *)

C6_OneEntryPerWeekWithMaxCount ==
    PageRead =>
        LET ws == last.page.weeklySummary
            rows == MatchingRows(last.page.owner, last.page.selected)
            weeks == { WeekOfRow(i) : i \in rows }
        IN  /\ { ws[i].weekEnding : i \in 1..Len(ws) } = weeks
            /\ Len(ws) = Cardinality(weeks)
            /\ \A i \in 1..Len(ws) :
                 /\ \E j \in rows : /\ WeekOfRow(j) = ws[i].weekEnding
                                    /\ CountOfRow(j) = ws[i].checkins
                 /\ \A j \in rows : WeekOfRow(j) = ws[i].weekEnding
                                        => CountOfRow(j) <= ws[i].checkins

\* a page read over records with counts 5 then 3 for one week shows 5
C6_Witness ==
    /\ PageRead
    /\ \E i, j \in MatchingRows(last.page.owner, last.page.selected) :
         /\ i < j
         /\ WeekOfRow(i) = WeekOfRow(j)
         /\ CountOfRow(i) = 5
         /\ CountOfRow(j) = 3
         /\ \E k \in 1..Len(last.page.weeklySummary) :
              /\ last.page.weeklySummary[k].weekEnding = WeekOfRow(i)
              /\ last.page.weeklySummary[k].checkins = 5

-----------------------------------------------------------------------------
(* C7: a malformed raw row (missing tenant, missing subject, blank          *)
(* weekEnding, non-numeric count) never aborts the read: weeklyHistory is   *)
(* the reconciliation of the well-formed rows alone and no error is raised. *)

C7_MalformedRowsAreSkipped ==
    PageRead =>
        /\ last.page.weeklySummary =
             weeklySummaryOf(parseHistoryRows(WellFormedOnly(historySheet)),
                             last.page.owner, last.page.selected)
        /\ last.page.errorBanner = ""

\* a page read over a batch with a non-numeric count between two valid rows
\* of the selected subject, both of which are served
C7_Witness ==
    /\ PageRead
    /\ \E i, j, k \in DataRows(historySheet) :
         /\ i < j /\ j < k
         /\ NonNumericText(Cell(historySheet[j], 4))
         /\ {i, k} \subseteq MatchingRows(last.page.owner, last.page.selected)
         /\ WeekOfRow(i) # WeekOfRow(k)
         /\ Len(last.page.weeklySummary) = 2

-----------------------------------------------------------------------------
(* C10: listSubjects(tenant) holds every subject of an explicit roster row  *)
(* of the tenant and every subject of a well-formed Ledger record of the    *)
(* tenant, and nothing else but the placeholder.                            *)

ExplicitSubjects(owner) ==
    { Trim(Cell(studentsSheet[i], 2)) :
        i \in { j \in DataRows(studentsSheet) :
                  /\ ToLowerCase(Trim(Cell(studentsSheet[j], 1))) = owner
                  /\ Trim(Cell(studentsSheet[j], 2)) # "" } }

LedgerSubjects(owner) ==
    { Trim(Cell(historySheet[i], 2)) :
        i \in { j \in DataRows(historySheet) :
                  /\ WellFormedRow(historySheet[j])
                  /\ ToLowerCase(Trim(Cell(historySheet[j], 1))) = owner } }

C10_RosterIsUnionOfRosterAndLedger ==
    PageRead =>
        LET subjects == ExplicitSubjects(last.page.owner) \cup LedgerSubjects(last.page.owner)
        IN  /\ \A s \in subjects : InSeq(s, last.page.students)
            /\ \A i \in 1..Len(last.page.students) :
                 last.page.students[i] \in subjects \cup {"Student 1"}

\* a tenant with no explicit roster row whose Ledger subject is listed
C10_Witness ==
    /\ PageRead
    /\ ExplicitSubjects(last.page.owner) = {}
    /\ \E s \in LedgerSubjects(last.page.owner) : InSeq(s, last.page.students)
    /\ \E o \in PageOwners : ExplicitSubjects(o) # {}

-----------------------------------------------------------------------------
(* C11 (as claimed): listSubjects(tenant) is never empty; it is exactly the  *)
(* placeholder when the tenant has no explicit roster row, the roster has   *)
(* no legacy row and the Ledger has no record of the tenant; the            *)
(* placeholder is not inserted when a real subject is present: a subject of *)
(* the tenant's roster rows, of its Ledger records, or, for a tenant        *)
(* without roster rows, of the legacy rows.                                 *)

\* the subjects of the roster rows that have a subject and no tenant
LegacySubjects ==
    { Trim(Cell(studentsSheet[i], 2)) :
        i \in { j \in DataRows(studentsSheet) :
                  /\ Trim(Cell(studentsSheet[j], 1)) = ""
                  /\ Trim(Cell(studentsSheet[j], 2)) # "" } }

\* the subjects the roster of a tenant is made of
RealSubjects(owner) ==
    ExplicitSubjects(owner) \cup LedgerSubjects(owner)
      \cup (IF ExplicitSubjects(owner) = {} THEN LegacySubjects ELSE {})

C11_PlaceholderOnlyForEmptyRoster ==
    PageRead =>
        LET real == RealSubjects(last.page.owner)
        IN  /\ Len(last.page.students) > 0
            /\ real = {} => last.page.students = <<"Student 1">>
            /\ (real # {} /\ "Student 1" \notin real) =>
                   ~InSeq("Student 1", last.page.students)

-----------------------------------------------------------------------------
(* C12 (as claimed): the subjects of the legacy roster rows are listed for  *)
(* a tenant with no explicit roster row, and are not listed (unless they    *)
(* come from another source) for a tenant with one.                         *)

C12_LegacyRowsAreFallback ==
    PageRead =>
        IF ExplicitSubjects(last.page.owner) = {}
        THEN \A s \in LegacySubjects : InSeq(s, last.page.students)
        ELSE \A s \in LegacySubjects :
                 s \notin ExplicitSubjects(last.page.owner)
                            \cup LedgerSubjects(last.page.owner)
                   => ~InSeq(s, last.page.students)

-----------------------------------------------------------------------------
(* C13: when a call of readHistoryRows or of readStudentsList throws, the   *)
(* page is still sent: a failed Ledger read gives an empty weeklySummary, a *)
(* failed roster read gives no explicit roster subject (the subjects are    *)
(* those of the Ledger records read, or the placeholder), the error banner  *)
(* is not empty, and no step of the request changes the count or the        *)
(* teachers of a key or a data row of either sheet.                         *)

\* the rows of a sheet below its header row
DataOf(sheet) == SubSeq(sheet, 2, Len(sheet))

C13_FailedReadGivesEmptyDataAndBanner ==
    [][ /\ \A key \in DOMAIN currentWeek' :
              /\ countOf(currentWeek', key) = countOf(currentWeek, key)
              /\ teachersOf(currentTeachers', key) = teachersOf(currentTeachers, key)
        /\ DataOf(historySheet') = DataOf(historySheet)
        /\ DataOf(studentsSheet') = DataOf(studentsSheet)
        /\ (last'.op = "page" /\ last'.historyFailed) =>
              /\ last'.page.weeklySummary = <<>>
              /\ last'.page.errorBanner # ""
        /\ (last'.op = "page" /\ last'.studentsFailed) =>
              /\ last'.page.errorBanner # ""
              /\ \A i \in 1..Len(last'.page.students) :
                    last'.page.students[i] \in
                       (IF last'.historyFailed THEN {}
                        ELSE LedgerSubjects(last'.page.owner)) \cup {"Student 1"} ]_vars

\* a page sent after the Ledger read failed on a sheet holding records of the
\* tenant, with the roster read succeeding
C13_Witness ==
    /\ PageRead
    /\ last.historyFailed
    /\ ~last.studentsFailed
    /\ LedgerSubjects(last.page.owner) # {}
    /\ last.page.weeklySummary = <<>>
    /\ last.page.students = <<"u">>

-----------------------------------------------------------------------------
(* C14: /add, /clearweek, /addstudent and /endweek called with a student    *)
(* that is empty or blank after trimming are answered and change nothing:   *)
(* no counter, no teacher list, no sheet, and no request is left running.   *)

C14_BlankStudentIsNoOp ==
    [][ /\ last'.op = "rejected"
        /\ UNCHANGED <<currentWeek, currentTeachers, historySheet, studentsSheet,
                       proc>> ]_vars

\* /endweek without a student has been answered while the key of the tenant
\* holds check-ins and both sheets hold rows
C14_Witness ==
    /\ last.op = "rejected"
    /\ last.handler = "endweek"
    /\ \E key \in DOMAIN currentWeek : currentWeek[key] > 0
    /\ Len(historySheet) > 1
    /\ Len(studentsSheet) > 1

-----------------------------------------------------------------------------
(* C15: weeklyHistory is strictly descending by weekEnding, the most recent *)
(* week first, so that no two entries share a weekEnding, whatever the      *)
(* Ledger holds.                                                            *)

C15_WeeklyHistoryStrictlyDescending ==
    PageRead =>
        \A i \in 1..(Len(last.page.weeklySummary) - 1) :
            StrLess(last.page.weeklySummary[i + 1].weekEnding,
                    last.page.weeklySummary[i].weekEnding)

\* three weeks are shown for records that the Ledger holds oldest first
C15_Witness ==
    /\ PageRead
    /\ Len(last.page.weeklySummary) = 3
    /\ Len(historySheet) = 4
    /\ StrLess(WeekOfRow(2), WeekOfRow(3))
    /\ StrLess(WeekOfRow(3), WeekOfRow(4))

-----------------------------------------------------------------------------
(* What the last step of a handler tells about the request it answered *)

Added == last.op = "add"

Cleared == last.op = "clearweek"

EndweekAnswered == last.op = "endweek"

EndweekSaved == EndweekAnswered /\ last.req.saved

\* /endweek ended in its catch block after a call among calls threw
EndweekThrewIn(calls) ==
    EndweekAnswered /\ ~last.req.saved /\ last.req.failedAt \in calls

\* no other request wrote the key of the /endweek request while it ran
Undisturbed == ~last.req.touched

\* the record /endweek is to append for the request it answered last
RecordOf(req) ==
    <<normalizeOwner(req.owner), req.student, getWeekEndingFridayISO(now, tz),
      NumToStr(req.startCount), joinTeachers(req.startTeachers)>>

-----------------------------------------------------------------------------
(* C1: in every reachable state the counter of every key is an integer from *)
(* 0 to CAP, whatever the requests and however the store's calls end.       *)

C1_CounterWithinCap ==
    \A key \in DOMAIN currentWeek : currentWeek[key] \in 0..CAP

\* /add has run on a key that was at the cap
C1_Witness == Added /\ last.before = CAP /\ currentWeek[last.key] = CAP

-----------------------------------------------------------------------------
(* C2: /add on a key whose count is c leaves c + 1 when c < CAP and CAP     *)
(* when c = CAP; the cap is no error: once /add has brought or left the    *)
(* key at CAP, the next /add on the key is served too.                      *)

C2_AddIncrementsUpToCap ==
    Added =>
        /\ currentWeek[last.key] =
             (IF last.before < CAP THEN last.before + 1 ELSE CAP)
        /\ currentWeek[last.key] = CAP => ENABLED Add(last.owner, last.student, "")

\* /add has taken a key from CAP - 1 to CAP
C2_Witness == Added /\ last.before = CAP - 1 /\ currentWeek[last.key] = CAP

-----------------------------------------------------------------------------
(* C3: when /endweek has run with no other request writing its key and the  *)
(* append to the History sheet succeeded, the request has appended exactly  *)
(* one record, the last of the sheet, made of the normalized owner, the     *)
(* student, the week-ending date, the count and the teacher summary the key *)
(* held when the request started; the key's count is 0 and its teacher list *)
(* is empty.                                                                *)

C3_EndweekAppendsOneRecordAndResets ==
    (EndweekSaved /\ Undisturbed) =>
        /\ last.req.histAdded = <<RecordOf(last.req)>>
        /\ Len(historySheet) > 1
        /\ historySheet[Len(historySheet)] = RecordOf(last.req)
        /\ last.req.key \in DOMAIN currentWeek
        /\ currentWeek[last.req.key] = 0
        /\ currentTeachers[last.req.key] = <<>>

\* an /endweek of a key with check-ins and a teacher has been saved
C3_Witness ==
    /\ EndweekSaved
    /\ Undisturbed
    /\ last.req.startCount > 0
    /\ last.req.startTeachers # <<>>

-----------------------------------------------------------------------------
(* C4: when a call of saveWeekToHistory throws, the step in which /endweek  *)
(* catches the error changes no key's count and no key's teacher list, and  *)
(* with no other request writing the key the key holds the count and the    *)
(* teachers it held when the request started.  The steps of the request     *)
(* before that one change no key either.                                    *)

C4_FailedAppendKeepsTheWeek ==
    [][ /\ (last'.op \in {"begin", "step"}) =>
              UNCHANGED <<currentWeek, currentTeachers>>
        /\ EndweekThrewIn(LedgerCalls)' =>
              /\ UNCHANGED <<currentWeek, currentTeachers>>
              /\ Undisturbed' =>
                   /\ countOf(currentWeek', last'.req.key) = last'.req.startCount
                   /\ teachersOf(currentTeachers', last'.req.key)
                        = last'.req.startTeachers ]_vars

\* the append of /endweek has thrown for a key with check-ins and a teacher,
\* beside another key with a check-in
C4_Witness ==
    /\ EndweekThrewIn({"saveWeekToHistory/appendRow"})
    /\ Undisturbed
    /\ last.req.startCount > 0
    /\ last.req.startTeachers # <<>>
    /\ currentWeek[last.req.key] = last.req.startCount
    /\ \E key \in DOMAIN currentWeek : key # last.req.key /\ currentWeek[key] > 0

-----------------------------------------------------------------------------
(* C5 (as claimed): when a call of ensureStudentInSheet throws during       *)
(* /endweek, the request still appends its record to the History sheet and  *)
(* resets the key.                                                          *)

C5_RosterFailureDoesNotAbortEndweek ==
    (EndweekAnswered /\ last.req.failedAt \in RosterCalls /\ Undisturbed) =>
        /\ Len(last.req.histAdded) = 1
        /\ countOf(currentWeek, last.req.key) = 0

-----------------------------------------------------------------------------
(* C9: /clearweek leaves the key with count 0 and an empty teacher list,    *)
(* whatever the key held, and changes neither the History sheet nor the     *)
(* Students sheet.                                                          *)

C9_ClearweekResetsTheKeyOnly ==
    [][ Cleared' =>
          /\ countOf(currentWeek', last'.key) = 0
          /\ last'.key \in DOMAIN currentWeek'
          /\ teachersOf(currentTeachers', last'.key) = <<>>
          /\ UNCHANGED <<historySheet, studentsSheet>> ]_vars

\* /clearweek has run on a key with check-ins while both sheets hold a row
C9_Witness ==
    /\ Cleared
    /\ last.before > 0
    /\ currentWeek[last.key] = 0
    /\ Len(historySheet) > 1
    /\ Len(studentsSheet) > 1

-----------------------------------------------------------------------------
(* C16: /endweek is safe to retry.  When attempts on a key fail at the      *)
(* append to the History sheet, with the row written or not, and a later    *)
(* attempt is saved, with no /add or /clearweek on the key in between, the  *)
(* weeklyHistory of the key has exactly one entry for that week, its count  *)
(* is the count the key held at the first attempt, which every row written  *)
(* for the week carries, and the key's count is 0.                          *)

\* weeklyHistory(owner, student) as the page computes it from the sheet
WeeklyHistoryNow(owner, student) ==
    weeklySummaryOf(parseHistoryRows(getAllRows(historySheet)), owner, student)

\* the data rows of the History sheet written for the key and week of req
RowsOfAttempt(req) ==
    { i \in DataRows(historySheet) :
        /\ Cell(historySheet[i], 1) = req.owner
        /\ Cell(historySheet[i], 2) = req.student
        /\ Cell(historySheet[i], 3) = req.friday }

-----------------------------------------------------------------------------
(* C17: two /endweek requests for the same key that run at the same time,   *)
(* started when the count is c, with nothing else writing the key and every *)
(* store call succeeding, each append a record; once both are answered the  *)
(* weeklyHistory of the key has exactly one entry for that week, with count *)
(* c, and the key's count is 0, however their steps interleave.             *)

\* the requests of SpecRace are answered and have appended their records
RaceOver ==
    /\ \A p \in Procs : ~Active(p)
    /\ DataRowCount(historySheet) >= 2

-----------------------------------------------------------------------------
(* C18: the History sheet is append-only.  In every step of every handler   *)
(* (/add, /clearweek, /addstudent, /endweek, the page, and the header       *)
(* checks they make) the records below the header row stay what and where   *)
(* they were; a step in which the append of /endweek is performed adds that *)
(* request's record as a new last row, also when the sheet already holds an *)
(* equal one, and no other step changes the records.                        *)

\* the step performs the appendRow of saveWeekToHistory (answered or not)
HistoryAppendPerformed ==
    \E p \in Procs :
        /\ Active(p)
        /\ proc[p].at = "saveWeekToHistory/appendRow"
        /\ ~Active(p)'
        /\ last'.op = "endweek"
        /\ last'.req.histAdded # <<>>

C18_HistoryIsAppendOnly ==
    [][ IF HistoryAppendPerformed
        THEN DataOf(historySheet') =
                 Append(DataOf(historySheet), last'.req.histAdded[1])
        ELSE DataOf(historySheet') = DataOf(historySheet) ]_vars

\* a repeated /endweek has appended a record equal to one already there
C18_Witness ==
    /\ last.op = "endweek"
    /\ last.req.histAdded # <<>>
    /\ \E i \in 2..Len(historySheet) - 1 :
          /\ historySheet[i] = last.req.histAdded[1]
          /\ historySheet[Len(historySheet)] = historySheet[i]

-----------------------------------------------------------------------------
(* C19: with one request at a time, /addstudent and the registration made   *)
(* by /endweek append a row to the Students sheet only if no row of the     *)
(* sheet for that tenant holds the name, compared ignoring case; the row is *)
(* the tenant and the trimmed name.  So a repeated call, or a call with a   *)
(* name that differs in case or surrounding whitespace only, adds no second *)
(* row: no two rows of a tenant hold the same name ignoring case.           *)

\* the roster row holds the name for the tenant, ignoring case
HoldsName(row, o, student) ==
    /\ normalizeOwner(Cell(row, 1)) = o
    /\ ToLowerCase(Trim(Cell(row, 2))) = ToLowerCase(student)

NoSecondRow(sheet) ==
    \A i, j \in 2..Len(sheet) :
        (i # j /\ normalizeOwner(Cell(sheet[i], 1)) # ""
               /\ Trim(Cell(sheet[i], 2)) # "")
          => ~HoldsName(sheet[j], normalizeOwner(Cell(sheet[i], 1)),
                        Trim(Cell(sheet[i], 2)))

C19_RegisterAppendsOnlyNewNames ==
    [][ /\ DataOf(studentsSheet') # DataOf(studentsSheet) =>
              \E p \in Procs :
                  LET r == proc[p]
                      o == normalizeOwner(r.owner)
                  IN  /\ Active(p)
                      /\ r.handler \in {"addstudent", "endweek"}
                      /\ DataOf(studentsSheet') =
                             Append(DataOf(studentsSheet), <<o, r.student>>)
                      /\ \A i \in 2..Len(studentsSheet) :
                             ~HoldsName(studentsSheet[i], o, r.student)
        /\ NoSecondRow(studentsSheet') ]_vars

\* "S" was registered for a tenant whose roster held "s": answered without
\* a failure, and the roster still has that one row
C19_Witness ==
    /\ last.op = "addstudent"
    /\ last.req.student = "S"
    /\ last.req.failedAt = ""
    /\ studentsSheet = <<wantedStudents, <<"a", "s">>>>

-----------------------------------------------------------------------------
(* C20: the teacher summary that /endweek writes is the teachers passed to  *)
(* /add for the key since the key was last reset, in the order they were    *)
(* passed, each trimmed, the empty and blank ones left out, joined by "; ", *)
(* and "" when there are none.  Step by step: /add with teacher t puts      *)
(* trim(t) at the end of the key's list unless it is empty; a reset         *)
(* (/clearweek, a saved /endweek) empties the list; no other step changes   *)
(* it; when /endweek reads the list its summary is the join of the list;    *)
(* and the record it appends carries that summary.                          *)

RECURSIVE NotesJoined(_)
NotesJoined(list) ==
    IF Len(list) = 0 THEN ""
    ELSE IF Len(list) = 1 THEN list[1]
    ELSE NotesJoined(SubSeq(list, 1, Len(list) - 1)) \o "; " \o list[Len(list)]

\* the step in which /endweek takes count, friday and teacherSummary
ReadsTheWeek(p) ==
    /\ Active(p) /\ Active(p)'
    /\ proc[p].at \in RosterCalls
    /\ proc'[p].at \in HistoryCalls

C20_SummaryIsTheTeachersPassed ==
    [][ /\ \A key \in DOMAIN currentTeachers \cup DOMAIN currentTeachers' :
              LET old == teachersOf(currentTeachers, key)
                  new == teachersOf(currentTeachers', key)
              IN  CASE last'.op = "add" /\ last'.key = key
                         -> new = IF Trim(last'.teacher) = "" THEN old
                                  ELSE Append(old, Trim(last'.teacher))
                    [] last'.op = "clearweek" /\ last'.key = key
                         -> new = <<>>
                    [] last'.op = "endweek" /\ last'.req.saved /\ last'.req.key = key
                         -> new = <<>>
                    [] OTHER -> new = old
        /\ \A p \in Procs :
              ReadsTheWeek(p) =>
                  proc'[p].teacherSummary =
                      NotesJoined(teachersOf(currentTeachers, proc[p].key))
        /\ HistoryAppendPerformed =>
              \E p \in Procs :
                  /\ Active(p)
                  /\ Cell(last'.req.histAdded[1], 5) = proc[p].teacherSummary ]_vars

\* two teachers were passed and /endweek wrote "t; u" (or "u; t")
C20_Witness ==
    /\ last.op = "endweek"
    /\ last.req.saved
    /\ ~last.req.touched
    /\ Len(last.req.startTeachers) = 2
    /\ last.req.startTeachers[1] # last.req.startTeachers[2]
    /\ Cell(historySheet[Len(historySheet)], 5)
         = last.req.startTeachers[1] \o "; " \o last.req.startTeachers[2]

-----------------------------------------------------------------------------
(* C21: no check-in is lost by a rollover.  In the step in which /endweek   *)
(* has saved its record and resets the key, whatever /add put on the key    *)
(* after /endweek read it is still there: the count of the record together  *)
(* with the count left on the key is at least the count the key held just   *)
(* before the reset, and teachers the record does not carry stay listed.    *)

C21_NoCheckInLostByRollover ==
    [][ (last'.op = "endweek" /\ last'.req.saved) =>
            \A p \in Procs :
                (Active(p) /\ proc[p].at = "saveWeekToHistory/appendRow") =>
                    LET key == proc[p].key
                    IN  /\ proc[p].count + countOf(currentWeek', key)
                             >= countOf(currentWeek, key)
                        /\ \/ joinTeachers(teachersOf(currentTeachers, key))
                                = proc[p].teacherSummary
                           \/ teachersOf(currentTeachers', key)
                                = teachersOf(currentTeachers, key) ]_vars

-----------------------------------------------------------------------------
(* C22: concurrent /add requests on a key lose an update.  The claim: the   *)
(* handler reads the count and writes count + 1 in separate steps, so that, *)
(* of two requests that arrived at count c <= CAP - 2, the second can be    *)
(* served after the first and leave the count at c + 1: whenever a request  *)
(* that arrived at c is pending and the count is c + 1, the request can be  *)
(* served with the count still c + 1 afterwards.                            *)

\* request p arrived at count c <= CAP - 2 and another /add was served since
OneOfTwoServed(p) ==
    /\ Active(p)
    /\ proc[p].handler = "add"
    /\ normalizeStudentName(proc[p].bodyStudent) # ""
    /\ proc[p].startCount <= CAP - 2
    /\ countOf(currentWeek, proc[p].key) = proc[p].startCount + 1

C22_ConcurrentAddsLoseAnUpdate ==
    \A p \in Procs :
        OneOfTwoServed(p) =>
            ENABLED (/\ ServeAdd(p)
                     /\ countOf(currentWeek', proc[p].key) = proc[p].startCount + 1)

(* C22, as amended: /add reads the count and writes count + 1 in one step, *)
(* so of two requests that arrived at count c <= CAP - 2 the one served     *)
(* second leaves the count at c + 2.                                        *)
C22_ConcurrentAddsBothCount ==
    [][ \A p \in Procs :
            (OneOfTwoServed(p) /\ ~Active(p)') =>
                countOf(currentWeek', proc[p].key) = proc[p].startCount + 2 ]_vars

\* the second of two requests that arrived at the same count was served
C22_Witness ==
    /\ last.op = "add"
    /\ last.started <= CAP - 2
    /\ last.before = last.started + 1
    /\ currentWeek[last.key] = last.started + 2

-----------------------------------------------------------------------------
(* C23: the week-ending date that /endweek writes is the date of a Friday   *)
(* of the local calendar, at every local weekday, time of day and UTC       *)
(* offset of the process: the string the week clock returns is the ISO date *)
(* of a day whose weekday is 5.                                             *)

C23_WeekEndingIsALocalFriday ==
    clockOut # "" =>
        \E d \in 1..31 :
            /\ clockOut = "2024-03-" \o TwoDigits(d)
            /\ getDay([day |-> d, hour |-> 0]) = 5

-----------------------------------------------------------------------------
(* C24: distinct (tenant, student) pairs have distinct counters.  A step of *)
(* /add, /clearweek or a saved /endweek for one pair leaves the count and   *)
(* the teachers of every other pair as they were, also when the names hold  *)
(* the characters "||", and in particular for pairs of another tenant.      *)

KeyTenants == { normalizeOwner(u) : u \in KeyUsers }

KeyNames == { normalizeStudentName(s) : s \in KeyStudents }

C24_PairsHaveTheirOwnCounter ==
    [][ \A o \in KeyTenants, s \in KeyNames :
            LET written ==
                    CASE last'.op \in {"add", "clearweek"}
                           -> <<last'.owner, last'.student>>
                      [] last'.op = "endweek"
                           -> <<normalizeOwner(last'.req.owner), last'.req.student>>
                      [] OTHER -> <<o, s>>
            IN  written # <<o, s>> =>
                    /\ countOf(currentWeek', ownerStudentKey(o, s))
                         = countOf(currentWeek, ownerStudentKey(o, s))
                    /\ teachersOf(currentTeachers', ownerStudentKey(o, s))
                         = teachersOf(currentTeachers, ownerStudentKey(o, s)) ]_vars

-----------------------------------------------------------------------------
(* C25: duplicate registrations are absorbed by the list of students.       *)
(* After any calls of /addstudent and /endweek of a tenant, the students    *)
(* the page lists for the tenant hold no two names that are equal ignoring  *)
(* case (the names ensureStudentInSheet takes for the same student).        *)

\* the students the page would list for the tenant from the sheets as they are
ListedNow(owner) ==
    sortStudents(rosterSet(parseStudentsList(getAllRows(studentsSheet)),
                           parseHistoryRows(getAllRows(historySheet)), owner))

C25_ListHasNoNameTwice ==
    \A o \in { normalizeOwner(u) : u \in RegisterUsers } :
        LET list == ListedNow(o)
        IN  \A i, j \in 1..Len(list) :
                i # j => ToLowerCase(list[i]) # ToLowerCase(list[j])

-----------------------------------------------------------------------------
(* C26: a History row whose count cell is missing or blank is malformed and *)
(* is skipped by the read: every entry of weeklyHistory comes from a record *)
(* of the tenant and student for that week whose count cell is not blank,   *)
(* and carries the count of such a record.                                  *)

C26_BlankCountRowsAreSkipped ==
    PageRead =>
        \A n \in 1..Len(last.page.weeklySummary) :
            \E i \in MatchingRows(last.page.owner, last.page.selected) :
                /\ Trim(Cell(historySheet[i], 4)) # ""
                /\ WeekOfRow(i) = last.page.weeklySummary[n].weekEnding
                /\ CountOfRow(i) = last.page.weeklySummary[n].checkins

-----------------------------------------------------------------------------
(* C27: when several records of a tenant, student and week share the        *)
(* greatest count, the entry of weeklyHistory is the first of them in the   *)
(* order of the sheet: it carries the teacher summary of the earliest       *)
(* record with the greatest count, a later record taking its place only     *)
(* with a strictly greater count.                                           *)

\* the rows of the tenant and student for the week
RowsOfWeek(owner, selected, weekEnding) ==
    { i \in MatchingRows(owner, selected) : WeekOfRow(i) = weekEnding }

\* the earliest of the rows with the greatest count
FirstGreatest(rows) ==
    CHOOSE i \in rows :
        /\ \A j \in rows : CountOfRow(j) <= CountOfRow(i)
        /\ \A j \in rows : CountOfRow(j) = CountOfRow(i) => i <= j

C27_FirstOfTheGreatestWins ==
    PageRead =>
        \A n \in 1..Len(last.page.weeklySummary) :
            LET e == last.page.weeklySummary[n]
                rows == RowsOfWeek(last.page.owner, last.page.selected, e.weekEnding)
            IN  /\ rows # {}
                /\ e.checkins = CountOfRow(FirstGreatest(rows))
                /\ e.teacher = Trim(Cell(historySheet[FirstGreatest(rows)], 5))

\* two records of the week share the greatest count and differ in their
\* teacher; the entry has the teacher of the earlier one
C27_Witness ==
    /\ PageRead
    /\ Len(last.page.weeklySummary) > 0
    /\ LET e == last.page.weeklySummary[1]
           rows == RowsOfWeek(last.page.owner, last.page.selected, e.weekEnding)
       IN  \E i, j \in rows :
              /\ i < j
              /\ i = FirstGreatest(rows)
              /\ CountOfRow(j) = CountOfRow(i)
              /\ Trim(Cell(historySheet[j], 5)) # Trim(Cell(historySheet[i], 5))
              /\ e.teacher = Trim(Cell(historySheet[i], 5))

-----------------------------------------------------------------------------
(* C28: the reads are scoped to the tenant.  The students and the           *)
(* weeklyHistory of a page depend only on the History and Students rows     *)
(* whose trimmed, lower-cased tenant is the caller's: they are what the     *)
(* page gives on the two sheets with every other row taken out, so adding,  *)
(* changing or removing rows of another tenant changes neither.             *)

\* the sheet with its header row and the data rows of the tenant
RECURSIVE OwnRows(_, _)
OwnRows(sheet, owner) ==
    IF Len(sheet) <= 1 THEN sheet
    ELSE OwnRows(SubSeq(sheet, 1, Len(sheet) - 1), owner)
         \o (IF ToLowerCase(Trim(Cell(sheet[Len(sheet)], 1))) = owner
             THEN <<sheet[Len(sheet)]>> ELSE <<>>)

C28_ReadsAreTenantScoped ==
    PageRead =>
        LET o == last.page.owner
            own == pageOf(parseHistoryRows(getAllRows(OwnRows(historySheet, o))),
                          parseStudentsList(getAllRows(OwnRows(studentsSheet, o))),
                          "", o, last.page.selected, currentWeek)
        IN  /\ last.page.students = own.students
            /\ last.page.weeklySummary = own.weeklySummary

\* a page of a tenant with a student and an entry of their own, read over
\* sheets that also hold a roster row and a record of another tenant
C28_Witness ==
    /\ PageRead
    /\ last.page.weeklySummary # <<>>
    /\ ExplicitSubjects(last.page.owner) # {}
    /\ \E o \in PageOwners :
          /\ o # last.page.owner
          /\ ExplicitSubjects(o) # {}
          /\ LedgerSubjects(o) # {}

-----------------------------------------------------------------------------
(* C29 (as claimed): in every reachable state the teachers listed for a key *)
(* are at most as many as the key's count: an /add absorbed by the cap adds *)
(* no teacher.                                                              *)

C29_TeachersAtMostTheCount ==
    \A key \in DOMAIN currentTeachers :
        Len(currentTeachers[key]) <= countOf(currentWeek, key)

(* C29, as amended: while the count of a key is below CAP the teachers      *)
(* listed for the key are at most as many as the count; an /add on a key at *)
(* CAP leaves the count at CAP and still puts its teacher on the list.      *)
C29_TeachersAtMostTheCountBelowCap ==
    [][ /\ \A key \in DOMAIN currentTeachers' :
              countOf(currentWeek', key) < CAP =>
                  Len(currentTeachers'[key]) <= countOf(currentWeek', key)
        /\ (last'.op = "add" /\ last'.before = CAP /\ Trim(last'.teacher) # "") =>
              /\ countOf(currentWeek', last'.key) = CAP
              /\ teachersOf(currentTeachers', last'.key) =
                   Append(teachersOf(currentTeachers, last'.key),
                          Trim(last'.teacher)) ]_vars

\* /add with a teacher was served on a key at CAP: the list is longer than
\* the count
C29_Witness ==
    /\ last.op = "add"
    /\ last.before = CAP
    /\ Trim(last.teacher) # ""
    /\ Len(currentTeachers[last.key]) = CAP + 1
    /\ currentWeek[last.key] = CAP

=============================================================================
